---- MODULE Spec2Model ----
(***************************************************************************)
(* Bundle inventory synchronisation of spicy-pickle: the sync-lock store,  *)
(* the orchestrator processInventoryUpdate, and the two ingress routes     *)
(* (direct webhook, Pub/Sub push).                                         *)
(*                                                                         *)
(* Every awaited database or gateway call of the source is one atomic      *)
(* step of a worker; the synchronous code between two awaits belongs to    *)
(* the step that precedes it.  Time is the wall clock in milliseconds.     *)
(***************************************************************************)
EXTENDS Integers, Sequences, FiniteSets, TLC

\* ------------------------------------------------------------------ bounds
MaxTicks == 1          \* how many times the clock advances in one behaviour
MaxRuns == 2           \* how many inbound requests are handled in one behaviour
MaxStock == 2          \* stock levels of the initial ledger and of events: 0..MaxStock
MaxFaults == 1         \* how many gateway calls fail in one behaviour
MaxDeliveries == 3     \* how many requests arrive in one behaviour with Pub/Sub pushes
MaxUnits == 6          \* stock handed to the availability calculators: 0..MaxUnits
MaxQuantity == 3       \* multipliers and component quantities: -1..MaxQuantity
MaxComponents == 2     \* length of a component list: 0..MaxComponents
MaxItems == 3          \* number of order line items handed to aggregateItems: 0..MaxItems
MaxRequests == 2       \* how many bundle create, import and update requests arrive in one behaviour

\* ------------------------------------------------------- program constants
SYNC_LOCK_TTL_MS == 60000
DEDUP_TTL_MS == 86400000

\* Two request handlers can be in flight at once.
Workers == {"w1", "w2"}
Other(w) == CHOOSE o \in Workers : o # w

\* Lock ids are strings in the source; the model keeps their parts apart:
\* <<namespace, key, locationId, timestamp>>.
NoLockId == <<"none", "", 0, 0>>

\* Pub/Sub message ids, and the dedup lock id `pubsub-${messageId}`.
Messages == {"m1", "m2"}
DedupLockId(m) == <<"pubsub", m, 0, 0>>
ApiLockIds == {<<"api", "k1", 0, 0>>, <<"api", "k2", 0, 0>>}

\* Product variants of the shop; each has one inventory item, named alike.
\* "X" is an inventory item id that belongs to no variant.
Variants == {"A", "B", "P"}
Items == Variants \cup {"X"}
Locations == {1, 2}
Stock == 0..MaxStock

\* Rows of the Bundle table with their BundleChild rows.
Child(gid, q) == [childGid |-> gid, quantity |-> q]
Bundle(id, parent, children) == [id |-> id, parentGid |-> parent, children |-> children]
\* B is the 2-pack of A; P is a variety pack of one A and one B.
PackBundles ==
    {Bundle("b1", "B", <<Child("A", 2)>>),
     Bundle("b2", "P", <<Child("A", 1), Child("B", 1)>>)}

VARIABLES
    now,        \* wall clock, ms
    ticks,      \* number of clock advances so far
    locks,      \* the SyncLock table: a set of rows [id, bundleId, expiresAt, owner]
    bundles,    \* the Bundle table of the shop (read-only for the orchestrator)
    ledger,     \* the external inventory ledger: location -> variant -> available
    faults,     \* number of gateway calls that have failed so far
    proc,       \* per worker: the handler it runs and that handler's locals
    runs,       \* number of requests received so far
    hist,       \* history: the summary of the request answered by the last step, if any
    acq,        \* history: per worker, its latest direct acquireSyncLock call
    dd,         \* history: per Pub/Sub message id, what happened to its deliveries
    inbox,      \* stock-change events the platform has yet to deliver for the app's own adjustments
    call        \* a call of one of the exported pure functions: name, arguments, result

vars == <<now, ticks, locks, bundles, ledger, faults, proc, runs, hist, acq, dd, inbox, call>>

\* ---------------------------------------------------------- SyncLock table
\* A lookup by id that never finds the row.
HasNoLock(S, id) == FALSE

\* A row with the id exists.
HasLock(S, id) == \E l \in S : l.id = id

\* A cleanup without its where clause: every row goes.
DeleteEverything(S, t) == {}

\* A cleanup that removes nothing.
DeleteNothing(S, t) == S

\* A cleanup that looks at the sync locks only.
DeleteExpiredSyncLocks(S, t) == {l \in S : ~(l.expiresAt < t /\ l.id[1] = "sync")}

\* db.syncLock.deleteMany({ where: { expiresAt: { lt: t } } })
DeleteExpired(S, t) == {l \in S : ~(l.expiresAt < t)}

\* A table without its primary key: every create succeeds.
CanCreateAlways(S, id) == TRUE

\* PRIMARY KEY ("id"): create fails when a row with the id exists.
CanCreate(S, id) == ~HasLock(S, id)

\* db.syncLock.delete({ where: { id } }); a missing row is an error the
\* callers swallow, so the table is left as it is.
DeleteLock(S, id) == {l \in S : l.id # id}

LockRow(id, bundleId, expiresAt, owner) ==
    [id |-> id, bundleId |-> bundleId, expiresAt |-> expiresAt, owner |-> owner]

\* ------------------------------------------------------------ worker state
\* No pure function is being called.
NoCall == [fn |-> "none", args |-> <<>>, done |-> FALSE, out |-> <<>>]

NoEvent == [item |-> "X", loc |-> 0, available |-> 0]
NoResult == [processed |-> FALSE, bundlesAffected |-> 0, adjustmentsMade |-> 0,
             skipped |-> "none"]
NoLevels == [v \in Variants |-> 0]

\* No bundle store request: entry point, parent and children asked for, the
\* import's groups and the index of the group at hand, the id of the bundle
\* found, and what the request has met and done so far.
NoReq ==
    [entry |-> "none", parentGid |-> "", children |-> <<>>, groups |-> <<>>, k |-> 0,
     bundleId |-> "", foundExisting |-> FALSE, overwrote |-> FALSE,
     created |-> 0, updated |-> 0, errors |-> 0]

IdleProc ==
    [pc |-> "idle", route |-> "none", msg |-> "",
     \* locals of acquireSyncLock
     lockId |-> NoLockId, lockBundle |-> "", acqNow |-> 0, acquired |-> FALSE,
     \* locals of processInventoryUpdate
     event |-> NoEvent, variantGid |-> "null", bundleList |-> <<>>, i |-> 0,
     levels |-> NoLevels, adjustments |-> <<>>, total |-> 0,
     exc |-> FALSE, result |-> NoResult, threw |-> FALSE, status |-> 0,
     \* history of this request
     invoked |-> FALSE, repeat |-> FALSE, retry |-> FALSE, solo |-> TRUE,
     gwFailed |-> FALSE,
     lockFailed |-> FALSE, contended |-> {}, issued |-> <<>>, attempted |-> {},
     \* locals of a bundle store request
     req |-> NoReq]

\* Per message id: deliveries that called processInventoryUpdate, deliveries
\* that failed and deleted the dedup lock, removals of the dedup lock by the
\* expired-lock cleanup.
NoDeliveries == [invoked |-> 0, failed |-> 0, collected |-> 0]

NoAcq ==
    [id |-> NoLockId, t |-> 0, pre |-> "absent", pairPre |-> "absent",
     overlap |-> FALSE, disturbed |-> FALSE, done |-> FALSE, result |-> FALSE]

InAcquire(w) == proc[w].pc \in {"acq_delete", "acq_create"}

\* What the table holds for id, as seen by a call that reads the clock at t.
PreState(id, t) ==
    IF ~HasLock(locks, id) THEN "absent"
    ELSE IF \A l \in locks : l.id = id => l.expiresAt < t THEN "expired"
    ELSE "live"

\* History bookkeeping at the start of an acquireSyncLock call by w for id:
\* the call pairs with the other worker's call when that one is in flight
\* for the same id and has not been paired or disturbed before.
AcqBegin(w, id) ==
    LET o     == Other(w)
        same  == InAcquire(o) /\ proc[o].lockId = id
        fresh == same /\ ~acq[o].overlap /\ ~acq[o].disturbed
        pre   == PreState(id, now)
    IN  [acq EXCEPT
            ![w] = [id |-> id, t |-> now, pre |-> pre,
                    pairPre |-> IF fresh THEN acq[o].pre ELSE pre,
                    overlap |-> fresh, disturbed |-> same /\ ~fresh,
                    done |-> FALSE, result |-> FALSE],
            ![o] = IF fresh THEN [@ EXCEPT !.overlap = TRUE]
                   ELSE IF InAcquire(o) /\ (same \/ @.overlap)
                        THEN [@ EXCEPT !.disturbed = TRUE]
                   ELSE @]

\* History bookkeeping when w starts any other lock-table operation.
AcqDisturb(w) ==
    LET o == Other(w)
    IN  [acq EXCEPT ![o] = IF InAcquire(o) /\ @.overlap
                           THEN [@ EXCEPT !.disturbed = TRUE] ELSE @]

\* ------------------------------------------------------------------- clock
Tick(d) ==
    /\ ticks < MaxTicks
    /\ now' = now + d
    /\ ticks' = ticks + 1
    /\ UNCHANGED <<locks, bundles, ledger, faults, proc, runs, acq, dd, inbox, call>>
    /\ hist' = <<>>

\* The time that passes before a step that reads the clock: none, a
\* millisecond, or just over the sync-lock TTL.
Delays == {0, 1, SYNC_LOCK_TTL_MS + 1}

Pass(d) ==
    /\ d > 0 => ticks < MaxTicks
    /\ now' = now + d
    /\ ticks' = IF d > 0 THEN ticks + 1 ELSE ticks

\* ------------------------------------------------- acquireSyncLock, by step
\* const now = new Date(); const expiresAt = now + SYNC_LOCK_TTL_MS
\* (the synchronous head of the call, up to the first await)
AcquireHead(p, id, bundleId, t) ==
    [p EXCEPT !.pc = "acq_delete", !.lockId = id, !.lockBundle = bundleId,
              !.acqNow = t, !.acquired = FALSE]

\* await db.syncLock.deleteMany(expiresAt < now)
AcqDelete(w) ==
    /\ proc[w].pc = "acq_delete"
    /\ locks' = DeleteExpired(locks, proc[w].acqNow)
    /\ proc' = [proc EXCEPT ![w].pc = "acq_create"]
    /\ dd' = [m \in Messages |->
                IF HasLock(locks, DedupLockId(m)) /\ ~HasLock(locks', DedupLockId(m))
                THEN [dd[m] EXCEPT !.collected = @ + 1] ELSE dd[m]]
    /\ UNCHANGED <<now, ticks, bundles, ledger, faults, runs, acq, inbox, call>>
    /\ hist' = <<>>

\* ------------------------------------------------ availability calculator
\* What a call of a function that can throw comes to: a value, or an Error
\* with its message.
Returned(n) == [threw |-> FALSE, error |-> "", value |-> n]
Thrown(message) == [threw |-> TRUE, error |-> message, value |-> 0]

\* A calculator that counts a started pack as a whole one.
RoundedUpAvailability(physicalStock, multiplier) ==
    IF multiplier <= 0
    THEN Thrown("Multiplier must be a positive number")
    ELSE Returned((physicalStock + multiplier - 1) \div multiplier)

\* calculateBundleAvailability: throws for multiplier <= 0, else
\* Math.floor(physicalStock / multiplier).
calculateBundleAvailability(physicalStock, multiplier) ==
    IF multiplier <= 0
    THEN Thrown("Multiplier must be a positive number")
    ELSE Returned(physicalStock \div multiplier)

MinOf(S) == CHOOSE m \in S : \A x \in S : m <= x

\* A calculator that looks at the first component only.
FirstComponentAvailability(components) ==
    IF Len(components) = 0 THEN Returned(0)
    ELSE IF \E k \in 1..Len(components) : components[k].quantity <= 0
         THEN Thrown("Component quantity must be a positive number")
         ELSE Returned(components[1].stock \div components[1].quantity)

\* calculateMixedBundleAvailability: 0 for no components; throws when the map
\* meets a component with quantity <= 0; else Math.min of the components'
\* Math.floor(stock / quantity).
calculateMixedBundleAvailability(components) ==
    IF Len(components) = 0 THEN Returned(0)
    ELSE IF \E k \in 1..Len(components) : components[k].quantity <= 0
         THEN Thrown("Component quantity must be a positive number")
         ELSE Returned(MinOf({components[k].stock \div components[k].quantity :
                                 k \in 1..Len(components)}))

\* ------------------------------------------------------------ bundle lookup
BundleById(id) == CHOOSE b \in bundles : b.id = id

ChildGids(b) == {b.children[k].childGid : k \in 1..Len(b.children)}

RECURSIVE Perms(_)
Perms(S) ==
    IF S = {} THEN {<<>>}
    ELSE UNION {{<<x>> \o q : q \in Perms(S \ {x})} : x \in S}

\* findBundlesForVariant: the parent matches, then the child matches, one
\* entry per bundle id (a Map keeps the first position); neither findMany
\* orders its rows, so any order within each group can come back.
\* A lookup without its where clauses: every bundle of the shop.
EveryBundle(variantGid) == Perms({b.id : b \in bundles})

\* A lookup that concatenates the two result sets without the Map.
BundlesWithRepeats(variantGid) ==
    LET parentBundles == {b.id : b \in {x \in bundles : x.parentGid = variantGid}}
        childBundles  == {b.id : b \in {x \in bundles : variantGid \in ChildGids(x)}}
    IN  {ps \o cs : ps \in Perms(parentBundles), cs \in Perms(childBundles)}

findBundlesForVariant(variantGid) ==
    LET parentBundles == {b.id : b \in {x \in bundles : x.parentGid = variantGid}}
        childBundles  == {b.id : b \in {x \in bundles : variantGid \in ChildGids(x)}}
    IN  {ps \o cs : ps \in Perms(parentBundles),
                    cs \in Perms(childBundles \ parentBundles)}

\* A lookup that takes the inventory item for its variant without asking.
VariantAssumed(item) == item

\* findVariantForInventoryItem: the variant of the inventory item, or null.
findVariantForInventoryItem(item) == IF item \in Variants THEN item ELSE "null"

\* ------------------------------------------------ calculateBundleAdjustments
\* stockMap: the webhook's value for the changed variant, the level read from
\* the gateway for every other variant of the bundle.
StockMap(levels, changedVariantGid, newAvailable) ==
    [v \in Variants |-> IF v = changedVariantGid THEN newAvailable ELSE levels[v]]

\* The calculator throws on a quantity <= 0.
CalcThrows(b) == \E k \in 1..Len(b.children) : b.children[k].quantity <= 0

ExpectedParentAvailability(b, stockMap) ==
    IF Len(b.children) = 1
    THEN calculateBundleAvailability(stockMap[b.children[1].childGid],
                                     b.children[1].quantity).value
    ELSE calculateMixedBundleAvailability(
            [k \in 1..Len(b.children) |->
                [stock |-> stockMap[b.children[k].childGid],
                 quantity |-> b.children[k].quantity]]).value

\* A delta taken against nothing: the expected availability is sent as is.
ParentStockIgnored(b, stockMap) == 0

\* The stock the delta is taken against: stockMap.get(bundle.parentGid).
CurrentParentStock(b, stockMap) == stockMap[b.parentGid]

\* A calculation that lacks `if (parentDelta !== 0)`: the parent's adjustment
\* is pushed whatever its delta.
AdjustmentsWithZeroDelta(b, loc, changedVariantGid, newAvailable, levels) ==
    LET stockMap == StockMap(levels, changedVariantGid, newAvailable)
    IN  <<[item |-> b.parentGid, loc |-> loc,
           delta |-> ExpectedParentAvailability(b, stockMap) - stockMap[b.parentGid]]>>

\* A calculation that books the parent's delta on the bundle's first
\* component.
AdjustmentsOnComponent(b, loc, changedVariantGid, newAvailable, levels) ==
    LET stockMap    == StockMap(levels, changedVariantGid, newAvailable)
        parentDelta == ExpectedParentAvailability(b, stockMap)
                         - CurrentParentStock(b, stockMap)
    IN  IF parentDelta # 0 /\ Len(b.children) > 0
        THEN <<[item |-> b.children[1].childGid, loc |-> loc, delta |-> parentDelta]>>
        ELSE <<>>

calculateBundleAdjustments(b, loc, changedVariantGid, newAvailable, levels) ==
    LET stockMap    == StockMap(levels, changedVariantGid, newAvailable)
        parentDelta == ExpectedParentAvailability(b, stockMap)
                         - CurrentParentStock(b, stockMap)
    IN  IF parentDelta # 0
        THEN <<[item |-> b.parentGid, loc |-> loc, delta |-> parentDelta]>>
        ELSE <<>>

\* adjustInventoryLevels sends the non-zero deltas; the gateway applies them.
NonZero(adjustments) == SelectSeq(adjustments, LAMBDA a : a.delta # 0)

RECURSIVE ApplyChanges(_, _)
ApplyChanges(L, changes) ==
    IF changes = <<>> THEN L
    ELSE ApplyChanges(
            [L EXCEPT ![Head(changes).loc][Head(changes).item] = @ + Head(changes).delta],
            Tail(changes))

\* --------------------------------------------- processInventoryUpdate, flow
\* const lockId = `sync-${bundle.id}-${locationId}-${Date.now()}`
SyncLockId(bundleId, loc, t) == <<"sync", bundleId, loc, t>>

\* processInventoryUpdate returns; both routes answer 200 at once.
PiuReturn(p, result) ==
    [p EXCEPT !.pc = "return", !.result = result, !.status = 200]

\* processInventoryUpdate throws: the direct webhook logs and answers 200,
\* the Pub/Sub route first deletes the message's dedup lock.
PiuThrow(p) ==
    IF p.route = "pubsub"
    THEN [p EXCEPT !.pc = "dedup_delete", !.threw = TRUE]
    ELSE [p EXCEPT !.pc = "return", !.threw = TRUE, !.status = 200]

\* Head of the for-loop over bundles, for the bundle at index p.i, run when
\* the clock shows t: past the end the function returns, else the lock id is
\* built and acquireSyncLock runs up to its first await.
LoopHead(p, t) ==
    IF p.i > Len(p.bundleList)
    THEN PiuReturn(p, [processed |-> TRUE, bundlesAffected |-> Len(p.bundleList),
                       adjustmentsMade |-> p.total, skipped |-> "none"])
    ELSE AcquireHead([p EXCEPT !.levels = NoLevels, !.adjustments = <<>>],
                     SyncLockId(p.bundleList[p.i], p.event.loc, t), p.bundleList[p.i], t)

\* A release written after the try block instead of in a finally block.
ReleaseUnlessThrown(S, id, exc) == IF exc THEN S ELSE DeleteLock(S, id)

\* finally { await releaseSyncLock(lockId) }: the delete runs whether or not
\* the try block threw (exc).
FinallyRelease(S, id, exc) == DeleteLock(S, id)

\* What a finished request leaves in the history.
Summary(w, p) ==
    [w |-> w, route |-> p.route, msg |-> p.msg, event |-> p.event,
     variantGid |-> p.variantGid, bundleList |-> p.bundleList,
     result |-> p.result, threw |-> p.threw, status |-> p.status,
     invoked |-> p.invoked, repeat |-> p.repeat, retry |-> p.retry, solo |-> p.solo,
     gwFailed |-> p.gwFailed,
     lockFailed |-> p.lockFailed, contended |-> p.contended,
     issued |-> p.issued, attempted |-> p.attempted,
     lastLock |-> p.lockId, acquired |-> p.acquired,
     ledgerEnd |-> ledger'[p.event.loc]]

\* The worker moves on with locals p; a request that has been answered is
\* summarised in the history and its worker becomes idle.
Continue(w, p) ==
    IF p.pc = "return"
    THEN /\ proc' = [proc EXCEPT ![w] = IdleProc]
         /\ hist' = <<Summary(w, p)>>
    ELSE /\ proc' = [proc EXCEPT ![w] = p]
         /\ hist' = <<>>

\* A loop that gives up at the first lock it does not get.
ContentionEndsLoop(p, t) ==
    PiuReturn(p, [processed |-> TRUE, bundlesAffected |-> Len(p.bundleList),
                  adjustmentsMade |-> p.total, skipped |-> "none"])

\* if (!lockAcquired) { ...; continue; }: on to the next bundle.
OnContention(p, t) == LoopHead([p EXCEPT !.i = @ + 1], t)

\* await db.syncLock.create(...); return true / catch { return false }.
\* Called alone, the call is over.  In the orchestrator a true leads into the
\* try block; a false is `continue`: the next loop head runs at once.
AcqCreate(w, d) ==
    /\ proc[w].pc = "acq_create"
    /\ Pass(d)
    /\ UNCHANGED <<bundles, ledger, faults, runs, dd, inbox, call>>
    /\ LET p  == proc[w]
           ok == CanCreate(locks, p.lockId)
       IN  /\ locks' = IF ok
                       THEN locks \cup {LockRow(p.lockId, p.lockBundle,
                                                p.acqNow + SYNC_LOCK_TTL_MS, w)}
                       ELSE locks
           /\ IF p.route = "lockapi"
              THEN /\ d = 0
                   /\ proc' = [proc EXCEPT ![w] = IdleProc]
                   /\ acq' = [acq EXCEPT ![w].done = TRUE, ![w].result = ok]
                   /\ hist' = <<>>
              ELSE /\ acq' = acq
                   /\ IF ok
                      THEN /\ d = 0
                           /\ Continue(w, [p EXCEPT !.acquired = TRUE, !.pc = "calc"])
                      ELSE Continue(w, OnContention(
                                [p EXCEPT !.acquired = FALSE, !.lockFailed = TRUE,
                                          !.contended = @ \cup {p.lockBundle}], now'))

\* -------------------------------------------- processInventoryUpdate, steps
Active(w) == proc[w].pc # "idle"

\* A new request takes the first free worker; the requests that overlap with
\* it are no longer alone.
FirstIdle(w) == ~Active(w) /\ (w = "w2" => Active("w1"))

\* The request that has just been answered ran alone, met no failed gateway
\* call and no held lock, and processInventoryUpdate returned a result.
CleanRun(h) ==
    h.invoked /\ h.solo /\ ~h.threw /\ ~h.gwFailed /\ ~h.lockFailed

\* A request for event ev that starts now repeats the one just answered, with
\* nothing in between and nothing else in flight.
Repeats(ev) ==
    /\ hist # <<>>
    /\ hist[1].event = ev
    /\ CleanRun(hist[1])
    /\ \A x \in Workers : ~Active(x)

Begin(w, p) ==
    [o \in Workers |->
        IF o = w THEN [p EXCEPT !.solo = \A x \in Workers \ {w} : ~Active(x)]
        ELSE IF Active(o) THEN [proc[o] EXCEPT !.solo = FALSE]
        ELSE proc[o]]

\* webhooks.inventory action: the request is authenticated and its payload
\* read; processInventoryUpdate(admin, event) is called.
StartWebhook(w, ev) ==
    /\ FirstIdle(w)
    /\ runs < MaxRuns
    /\ runs' = runs + 1
    /\ proc' = Begin(w, [IdleProc EXCEPT !.pc = "resolve", !.route = "webhook",
                                         !.event = ev, !.invoked = TRUE,
                                         !.repeat = Repeats(ev)])
    /\ UNCHANGED <<now, ticks, locks, bundles, ledger, faults, acq, dd, inbox, call>>
    /\ hist' = <<>>

\* await findVariantForInventoryItem; await findBundlesForVariant; the two
\* early returns; else the first loop head.
Resolve(w, d) ==
    /\ proc[w].pc = "resolve"
    /\ Pass(d)
    /\ UNCHANGED <<locks, bundles, ledger, faults, runs, acq, dd, inbox, call>>
    /\ LET p == proc[w]
           v == findVariantForInventoryItem(p.event.item)
       IN  IF v = "null"
           THEN /\ d = 0
                /\ Continue(w, PiuReturn(p,
                    [processed |-> FALSE, bundlesAffected |-> 0, adjustmentsMade |-> 0,
                     skipped |-> "Could not find variant for inventory item"]))
           ELSE \E bl \in findBundlesForVariant(v) :
                  IF Len(bl) = 0
                  THEN /\ d = 0
                       /\ Continue(w, PiuReturn([p EXCEPT !.variantGid = v],
                          [processed |-> TRUE, bundlesAffected |-> 0, adjustmentsMade |-> 0,
                           skipped |-> "Variant is not part of any bundle"]))
                  ELSE Continue(w, LoopHead([p EXCEPT !.variantGid = v,
                                                      !.bundleList = bl, !.i = 1], now'))

\* The gateway call of findVariantForInventoryItem fails: the exception
\* leaves processInventoryUpdate.
ResolveFails(w) ==
    /\ proc[w].pc = "resolve"
    /\ faults < MaxFaults
    /\ faults' = faults + 1
    /\ UNCHANGED <<now, ticks, locks, bundles, ledger, runs, acq, dd, inbox, call>>
    /\ Continue(w, PiuThrow([proc[w] EXCEPT !.gwFailed = TRUE]))

\* calculateBundleAdjustments: the gateway reads (inventory items, levels at
\* the location) and the calculation; then adjustInventoryLevels up to its
\* first await, which returns at once when there is nothing to send.
ReadLevels(w) ==
    /\ proc[w].pc = "calc"
    /\ UNCHANGED <<now, ticks, locks, bundles, ledger, faults, runs, acq, dd, inbox, call>>
    /\ hist' = <<>>
    /\ LET p   == proc[w]
           b   == BundleById(p.bundleList[p.i])
           lv  == ledger[p.event.loc]
           adj == calculateBundleAdjustments(b, p.event.loc, p.variantGid,
                                             p.event.available, lv)
       IN  IF CalcThrows(b)
           THEN proc' = [proc EXCEPT ![w] = [p EXCEPT !.levels = lv, !.exc = TRUE,
                                                      !.pc = "release"]]
           ELSE IF NonZero(adj) = <<>>
           THEN proc' = [proc EXCEPT ![w] =
                            [p EXCEPT !.levels = lv, !.adjustments = adj,
                                      !.attempted = @ \cup {[id |-> b.id, levels |-> lv]},
                                      !.total = @ + Len(adj), !.pc = "release"]]
           ELSE proc' = [proc EXCEPT ![w] =
                            [p EXCEPT !.levels = lv, !.adjustments = adj,
                                      !.attempted = @ \cup {[id |-> b.id, levels |-> lv]}, !.pc = "adjust"]]

\* A gateway read of calculateBundleAdjustments fails: the exception passes
\* through the finally block.
ReadLevelsFails(w) ==
    /\ proc[w].pc = "calc"
    /\ faults < MaxFaults
    /\ faults' = faults + 1
    /\ proc' = [proc EXCEPT ![w].exc = TRUE, ![w].gwFailed = TRUE, ![w].pc = "release"]
    /\ UNCHANGED <<now, ticks, locks, bundles, ledger, runs, acq, dd, inbox, call>>
    /\ hist' = <<>>

\* The stock-change events the platform sends for applied changes: one per
\* adjusted variant, carrying the quantity the ledger holds after the change.
LevelUpdates(L, changes) ==
    {[item |-> changes[k].item, loc |-> changes[k].loc,
      available |-> L[changes[k].loc][changes[k].item]] : k \in 1..Len(changes)}

\* inventoryAdjustQuantities succeeds: the ledger takes the deltas.  With
\* notify, the platform queues the stock-change events of these changes.
AdjustStep(w, notify) ==
    /\ proc[w].pc = "adjust"
    /\ LET p == proc[w]
       IN  /\ ledger' = ApplyChanges(ledger, NonZero(p.adjustments))
           /\ proc' = [proc EXCEPT ![w].issued = @ \o NonZero(p.adjustments),
                                   ![w].total = @ + Len(p.adjustments),
                                   ![w].pc = "release"]
           /\ inbox' = IF notify
                       THEN inbox \cup LevelUpdates(ledger', NonZero(p.adjustments))
                       ELSE inbox
    /\ UNCHANGED <<now, ticks, locks, bundles, faults, runs, acq, dd, call>>
    /\ hist' = <<>>

Adjust(w) == AdjustStep(w, FALSE)

AdjustNotified(w) == AdjustStep(w, TRUE)

\* inventoryAdjustQuantities answers with userErrors: they are logged, the
\* ledger is as before, the adjustments are counted all the same.
AdjustUserErrors(w) ==
    /\ proc[w].pc = "adjust"
    /\ faults < MaxFaults
    /\ faults' = faults + 1
    /\ LET p == proc[w]
       IN  proc' = [proc EXCEPT ![w].issued = @ \o NonZero(p.adjustments),
                                ![w].total = @ + Len(p.adjustments),
                                ![w].gwFailed = TRUE,
                                ![w].pc = "release"]
    /\ UNCHANGED <<now, ticks, locks, bundles, ledger, runs, acq, dd, inbox, call>>
    /\ hist' = <<>>

\* The mutation call itself fails: the exception passes through the finally
\* block.
AdjustFails(w) ==
    /\ proc[w].pc = "adjust"
    /\ faults < MaxFaults
    /\ faults' = faults + 1
    /\ proc' = [proc EXCEPT ![w].exc = TRUE, ![w].gwFailed = TRUE, ![w].pc = "release"]
    /\ UNCHANGED <<now, ticks, locks, bundles, ledger, runs, acq, dd, inbox, call>>
    /\ hist' = <<>>

\* finally: await releaseSyncLock(lockId); then the exception goes on to the
\* caller, or the loop goes on to its next head.
Release(w, d) ==
    /\ proc[w].pc = "release"
    /\ Pass(d)
    /\ UNCHANGED <<bundles, ledger, faults, runs, acq, dd, inbox, call>>
    /\ LET p == proc[w]
       IN  /\ locks' = FinallyRelease(locks, p.lockId, p.exc)
           /\ IF p.exc
              THEN /\ d = 0
                   /\ Continue(w, PiuThrow(p))
              ELSE /\ (d > 0 => p.i < Len(p.bundleList))
                   /\ Continue(w, LoopHead([p EXCEPT !.i = @ + 1], now'))

\* ------------------------------------------------------ Pub/Sub push route
\* The payload a message id carries; a redelivery carries it again.
MsgEvent(m) ==
    IF m = "m1" THEN [item |-> "A", loc |-> 1, available |-> MaxStock]
    ELSE [item |-> "P", loc |-> 1, available |-> 0]

\* The push redelivers the message of the push answered just before it, which
\* failed, and no request is in flight.
RetryOf(m) ==
    /\ hist # <<>>
    /\ hist[1].route = "pubsub" /\ hist[1].msg = m
    /\ hist[1].threw
    /\ \A x \in Workers : ~Active(x)

\* The push is received, decoded and validated.
StartPubSub(w, m) ==
    /\ FirstIdle(w)
    /\ runs < MaxDeliveries
    /\ runs' = runs + 1
    /\ proc' = Begin(w, [IdleProc EXCEPT !.pc = "dedup_find", !.route = "pubsub",
                                         !.msg = m, !.event = MsgEvent(m),
                                         !.retry = RetryOf(m)])
    /\ UNCHANGED <<now, ticks, locks, bundles, ledger, faults, acq, dd, inbox, call>>
    /\ hist' = <<>>

\* No request arrives for d, none being in flight.
QuietPeriod(d) ==
    /\ \A w \in Workers : ~Active(w)
    /\ Tick(d)

\* await db.syncLock.findUnique({ id: `pubsub-${messageId}` }): a row, expired
\* or not, makes the push a duplicate, answered 200.
DedupFind(w) ==
    /\ proc[w].pc = "dedup_find"
    /\ UNCHANGED <<now, ticks, locks, bundles, ledger, faults, runs, acq, dd, inbox, call>>
    /\ IF HasLock(locks, DedupLockId(proc[w].msg))
       THEN Continue(w, [proc[w] EXCEPT !.pc = "return", !.status = 200])
       ELSE Continue(w, [proc[w] EXCEPT !.pc = "dedup_create"])

\* await db.syncLock.create with expiresAt = Date.now() + 24 h; a rejected
\* create is answered 200; else processInventoryUpdate is called.
DedupCreate(w) ==
    /\ proc[w].pc = "dedup_create"
    /\ UNCHANGED <<now, ticks, bundles, ledger, faults, runs, acq, inbox, call>>
    /\ LET p  == proc[w]
           id == DedupLockId(p.msg)
       IN  IF CanCreate(locks, id)
           THEN /\ locks' = locks \cup {LockRow(id, "pubsub-dedup", now + DEDUP_TTL_MS, w)}
                /\ dd' = [dd EXCEPT ![p.msg].invoked = @ + 1]
                /\ Continue(w, [p EXCEPT !.pc = "resolve", !.invoked = TRUE])
           ELSE /\ locks' = locks
                /\ dd' = dd
                /\ Continue(w, [p EXCEPT !.pc = "return", !.status = 200])

\* A catch block that leaves the dedup lock where it is.
KeepDedupLock(S, m) == S

\* "Delete the lock so the message can be retried"
RemoveDedupLock(S, m) == DeleteLock(S, DedupLockId(m))

\* catch: await db.syncLock.delete({ id: `pubsub-${messageId}` }), errors
\* ignored; the push is answered 500.
DedupDelete(w) ==
    /\ proc[w].pc = "dedup_delete"
    /\ UNCHANGED <<now, ticks, bundles, ledger, faults, runs, acq, inbox, call>>
    /\ locks' = RemoveDedupLock(locks, proc[w].msg)
    /\ dd' = [dd EXCEPT ![proc[w].msg].failed = @ + 1]
    /\ Continue(w, [proc[w] EXCEPT !.pc = "return", !.status = 500])

\* ------------------------------------------- the lock manager called alone
CallAcquire(w, id) ==
    /\ proc[w].pc = "idle"
    /\ proc' = [proc EXCEPT ![w] = AcquireHead([@ EXCEPT !.route = "lockapi"], id, "api", now)]
    /\ acq' = AcqBegin(w, id)
    /\ UNCHANGED <<now, ticks, locks, bundles, ledger, faults, runs, dd, inbox, call>>
    /\ hist' = <<>>

\* db.syncLock.delete rejects when no row has the id.
DeleteRejects(S, id) == ~HasLock(S, id)

\* A release without its catch: the rejection reaches the caller.
Unswallowed(rejected) == rejected

\* .catch(() => {}): whatever the delete rejects with, releaseSyncLock resolves.
ReleaseRejects(rejected) == FALSE

\* What a finished releaseSyncLock call leaves in the history: whether the id
\* had a row, whether the table is as before, whether the call before it
\* was the same, who called, the rows the call removed, and whether and when
\* the caller's latest acquireSyncLock call got the id.
ReleaseSummary(w, id) ==
    [route |-> "release", lastLock |-> id,
     by |-> w, removed |-> {l \in locks : l.id = id},
     held |-> acq[w].id = id /\ acq[w].done /\ acq[w].result, heldAt |-> acq[w].t,
     had |-> HasLock(locks, id),
     threw |-> ReleaseRejects(DeleteRejects(locks, id)),
     again |-> hist # <<>> /\ hist[1].route = "release" /\ hist[1].lastLock = id,
     same |-> locks' = locks]

\* releaseSyncLock(lockId): one awaited delete, errors swallowed.  With
\* logged, the call is summarised in the history.
ReleaseStep(w, id, logged) ==
    /\ proc[w].pc = "idle"
    /\ locks' = DeleteLock(locks, id)
    /\ acq' = AcqDisturb(w)
    /\ UNCHANGED <<now, ticks, bundles, ledger, faults, proc, runs, dd, inbox, call>>
    /\ hist' = IF logged THEN <<ReleaseSummary(w, id)>> ELSE <<>>

CallRelease(w, id) == ReleaseStep(w, id, FALSE)

\* The lock manager called by one caller at a time.
AcquireAlone(w, id) ==
    /\ \A x \in Workers : ~Active(x)
    /\ CallAcquire(w, id)

ReleaseAlone(w, id) ==
    /\ \A x \in Workers : ~Active(x)
    /\ ReleaseStep(w, id, TRUE)

\* ---------------------------------------------------------- specifications
InitLock ==
    /\ now = 0
    /\ ticks = 0
    /\ locks = {}
    /\ bundles = {}
    /\ ledger = [l \in Locations |-> NoLevels]
    /\ faults = 0
    /\ proc = [w \in Workers |-> IdleProc]
    /\ runs = 0
    /\ hist = <<>>
    /\ acq = [w \in Workers |-> NoAcq]
    /\ dd = [m \in Messages |-> NoDeliveries]
    /\ inbox = {}
    /\ call = NoCall

NextLock ==
    \/ \E d \in {1, SYNC_LOCK_TTL_MS, SYNC_LOCK_TTL_MS + 1} : Tick(d)
    \/ \E w \in Workers, id \in ApiLockIds : CallAcquire(w, id)
    \/ \E w \in Workers, id \in ApiLockIds : CallRelease(w, id)
    \/ \E w \in Workers : AcqDelete(w)
    \/ \E w \in Workers : AcqCreate(w, 0)

SpecLock == InitLock /\ [][NextLock]_vars

NextRelease ==
    \/ \E d \in {1, SYNC_LOCK_TTL_MS, SYNC_LOCK_TTL_MS + 1} : Tick(d)
    \/ \E w \in Workers, id \in ApiLockIds : AcquireAlone(w, id)
    \/ \E w \in Workers, id \in ApiLockIds : ReleaseAlone(w, id)
    \/ \E w \in Workers : AcqDelete(w)
    \/ \E w \in Workers : AcqCreate(w, 0)

SpecRelease == InitLock /\ [][NextRelease]_vars

\* The direct webhook route over the pack and variety-pack bundles, with
\* requests in flight at the same time and gateway calls that fail.
Events == [item : Variants, loc : Locations, available : Stock]

\* The events of concurrent requests: a restock of A, which is in both
\* bundles, a sell-out of B, the parent of one and a component of the other,
\* and an event for an inventory item that belongs to no variant.
ConcurrentEvents ==
    {[item |-> "A", loc |-> 1, available |-> MaxStock],
     [item |-> "B", loc |-> 1, available |-> 0],
     [item |-> "X", loc |-> 1, available |-> 0]}

\* The ledger the concurrent requests start from: nothing is in stock.
InitLevels == [v \in Variants |-> 0]

Init ==
    /\ now = 0
    /\ ticks = 0
    /\ locks = {}
    /\ bundles = PackBundles
    /\ ledger = [l \in Locations |-> InitLevels]
    /\ faults = 0
    /\ proc = [w \in Workers |-> IdleProc]
    /\ runs = 0
    /\ hist = <<>>
    /\ acq = [w \in Workers |-> NoAcq]
    /\ dd = [m \in Messages |-> NoDeliveries]
    /\ inbox = {}
    /\ call = NoCall

Next ==
    \/ \E w \in Workers, ev \in ConcurrentEvents : StartWebhook(w, ev)
    \/ \E w \in Workers, d \in Delays : Resolve(w, d)
    \/ \E w \in Workers : ResolveFails(w)
    \/ \E w \in Workers : AcqDelete(w)
    \/ \E w \in Workers, d \in Delays : AcqCreate(w, d)
    \/ \E w \in Workers : ReadLevels(w)
    \/ \E w \in Workers : ReadLevelsFails(w)
    \/ \E w \in Workers : Adjust(w)
    \/ \E w \in Workers : AdjustUserErrors(w)
    \/ \E w \in Workers : AdjustFails(w)
    \/ \E w \in Workers, d \in Delays : Release(w, d)

Spec == Init /\ [][Next]_vars

\* Two requests in flight over the 2-pack bundle and a bundle that lists its
\* own parent as a component (no entry point compares the two), each for an
\* event that carries the level the ledger holds when the request arrives; no
\* gateway call fails and nothing else changes the ledger.
RaceBundles ==
    {Bundle("b1", "B", <<Child("A", 2)>>),
     Bundle("b3", "P", <<Child("P", 1)>>)}

RaceEvents == {ev \in Events : ev.loc = 1}

RaceLevels == {[InitLevels EXCEPT !["A"] = a, !["B"] = b] : a \in Stock, b \in Stock}

StartTruthful(w, ev) ==
    /\ ev.available = ledger[ev.loc][ev.item]
    /\ StartWebhook(w, ev)

InitRace ==
    /\ now = 0
    /\ ticks = 0
    /\ locks = {}
    /\ bundles = RaceBundles
    /\ ledger \in {[l \in Locations |-> IF l = 1 THEN lv ELSE InitLevels] : lv \in RaceLevels}
    /\ faults = 0
    /\ proc = [w \in Workers |-> IdleProc]
    /\ runs = 0
    /\ hist = <<>>
    /\ acq = [w \in Workers |-> NoAcq]
    /\ dd = [m \in Messages |-> NoDeliveries]
    /\ inbox = {}
    /\ call = NoCall

NextRace ==
    \/ \E w \in Workers, ev \in RaceEvents : StartTruthful(w, ev)
    \/ \E w \in Workers, d \in Delays : Resolve(w, d)
    \/ \E w \in Workers : AcqDelete(w)
    \/ \E w \in Workers, d \in Delays : AcqCreate(w, d)
    \/ \E w \in Workers : ReadLevels(w)
    \/ \E w \in Workers : Adjust(w)
    \/ \E w \in Workers, d \in Delays : Release(w, d)

SpecRace == InitRace /\ [][NextRace]_vars

\* The direct route with one request handled at a time and no failing call,
\* from every ledger over the stock range.
StartAlone(w, ev) ==
    /\ \A x \in Workers : ~Active(x)
    /\ StartWebhook(w, ev)

InitSolo ==
    /\ now = 0
    /\ ticks = 0
    /\ locks = {}
    /\ bundles = PackBundles
    /\ \E lv \in [Variants -> Stock] : ledger = [l \in Locations |-> lv]
    /\ faults = 0
    /\ proc = [w \in Workers |-> IdleProc]
    /\ runs = 0
    /\ hist = <<>>
    /\ acq = [w \in Workers |-> NoAcq]
    /\ dd = [m \in Messages |-> NoDeliveries]
    /\ inbox = {}
    /\ call = NoCall

NextSolo ==
    \/ \E w \in Workers, ev \in Events : StartAlone(w, ev)
    \/ \E w \in Workers : Resolve(w, 0)
    \/ \E w \in Workers : AcqDelete(w)
    \/ \E w \in Workers : AcqCreate(w, 0)
    \/ \E w \in Workers : ReadLevels(w)
    \/ \E w \in Workers : Adjust(w)
    \/ \E w \in Workers : Release(w, 0)

SpecSolo == InitSolo /\ [][NextSolo]_vars

\* Both ingress routes over the 2-pack bundle.  Between two requests enough
\* time can pass for a dedup lock to expire; within a request the steps follow
\* each other in the same millisecond or the next.
QuietPeriods == {DEDUP_TTL_MS + 1}
StepDelays == {0, 1}

InitIngress ==
    /\ now = 0
    /\ ticks = 0
    /\ locks = {}
    /\ bundles = {Bundle("b1", "B", <<Child("A", 2)>>)}
    /\ ledger = [l \in Locations |-> [v \in Variants |-> 0]]
    /\ faults = 0
    /\ proc = [w \in Workers |-> IdleProc]
    /\ runs = 0
    /\ hist = <<>>
    /\ acq = [w \in Workers |-> NoAcq]
    /\ dd = [m \in Messages |-> NoDeliveries]
    /\ inbox = {}
    /\ call = NoCall

NextIngress ==
    \/ \E d \in QuietPeriods : QuietPeriod(d)
    \/ \E w \in Workers, m \in Messages : StartPubSub(w, m)
    \/ \E w \in Workers : StartWebhook(w, MsgEvent("m1"))
    \/ \E w \in Workers : DedupFind(w)
    \/ \E w \in Workers : DedupCreate(w)
    \/ \E w \in Workers : DedupDelete(w)
    \/ \E w \in Workers, d \in StepDelays : Resolve(w, d)
    \/ \E w \in Workers : ResolveFails(w)
    \/ \E w \in Workers : AcqDelete(w)
    \/ \E w \in Workers, d \in StepDelays : AcqCreate(w, d)
    \/ \E w \in Workers : ReadLevels(w)
    \/ \E w \in Workers : ReadLevelsFails(w)
    \/ \E w \in Workers : Adjust(w)
    \/ \E w \in Workers : AdjustUserErrors(w)
    \/ \E w \in Workers : AdjustFails(w)
    \/ \E w \in Workers, d \in StepDelays : Release(w, d)

SpecIngress == InitIngress /\ [][NextIngress]_vars

\* The feedback loop: the shop's stock changes once, and from then on the only
\* events are those the platform sends for the app's own adjustments, handled
\* one after the other.  Pending events that are equal are delivered once.
CycleBundles == {Bundle("b1", "A", <<Child("B", 1)>>), Bundle("b2", "B", <<Child("A", 1)>>)}

StartFeedback(w) ==
    /\ FirstIdle(w)
    /\ \A x \in Workers : ~Active(x)
    /\ \E ev \in inbox :
         /\ inbox' = inbox \ {ev}
         /\ proc' = Begin(w, [IdleProc EXCEPT !.pc = "resolve", !.route = "webhook",
                                              !.event = ev, !.invoked = TRUE])
    /\ UNCHANGED <<now, ticks, locks, bundles, ledger, faults, runs, acq, dd, call>>
    /\ hist' = <<>>

InitLoop ==
    /\ now = 0
    /\ ticks = 0
    /\ locks = {}
    /\ bundles \in {PackBundles, CycleBundles}
    /\ \E lv \in [Variants -> Stock] : ledger = [l \in Locations |-> lv]
    /\ faults = 0
    /\ proc = [w \in Workers |-> IdleProc]
    /\ runs = 0
    /\ hist = <<>>
    /\ acq = [w \in Workers |-> NoAcq]
    /\ dd = [m \in Messages |-> NoDeliveries]
    /\ \E v \in Variants, l \in Locations :
         inbox = {[item |-> v, loc |-> l, available |-> ledger[l][v]]}
    /\ call = NoCall

NextLoop ==
    \/ \E w \in Workers : StartFeedback(w)
    \/ \E w \in Workers : Resolve(w, 0)
    \/ \E w \in Workers : AcqDelete(w)
    \/ \E w \in Workers : AcqCreate(w, 0)
    \/ \E w \in Workers : ReadLevels(w)
    \/ \E w \in Workers : AdjustNotified(w)
    \/ \E w \in Workers : Release(w, 0)

\* Every queued event is delivered and every handler runs to its end.
SpecLoop == InitLoop /\ [][NextLoop]_vars /\ WF_vars(NextLoop)

\* No event is pending and no handler is running.
Settled == inbox = {} /\ \A w \in Workers : ~Active(w)

\* ------------------------------------------------------- the bundle store
\* Requests that write Bundle rows: the create form, POST /api/bundles, the
\* CSV import, the edit form and PUT /api/bundles/:id.  They are about the
\* parent variants B and P and the component A.
StoreParents == {"B", "P"}
StoreQuantities == {0, 1, 2}
StoreChildLists == {<<>>} \cup {<<Child("A", q)>> : q \in StoreQuantities}

\* The rows of an imported CSV file below the header; quantity is text.
CsvLines ==
    {[name |-> "Pack", parent_gid |-> g, child_gid |-> "A", quantity |-> t] :
        g \in StoreParents, t \in {"0", "2"}}
CsvFiles == UNION {[1..n -> CsvLines] : n \in 1..2}

\* parseInt(text, 10) for the quantity texts of the model; any other text
\* has no leading digits and gives NaN.
parseInt(t) ==
    CASE t = "0" -> [nan |-> FALSE, value |-> 0]
      [] t = "1" -> [nan |-> FALSE, value |-> 1]
      [] t = "2" -> [nan |-> FALSE, value |-> 2]
      [] OTHER   -> [nan |-> TRUE, value |-> 0]

\* The import's row loop: a line with an invalid quantity is reported and
\* left out.
RECURSIVE ParseRows(_)
ParseRows(lines) ==
    IF lines = <<>> THEN <<>>
    ELSE LET line == Head(lines)
             quantity == parseInt(line.quantity)
         IN  IF quantity.nan \/ quantity.value < 1
             THEN ParseRows(Tail(lines))
             ELSE <<[parent_gid |-> line.parent_gid, child_gid |-> line.child_gid,
                     quantity |-> quantity.value]>> \o ParseRows(Tail(lines))

\* The import's bundleMap: the rows grouped by parent_gid, in the order the
\* parents first appear.
RECURSIVE GroupRows(_, _)
GroupRows(rows, bundleMap) ==
    IF rows = <<>> THEN bundleMap
    ELSE LET row == Head(rows)
             at == {k \in 1..Len(bundleMap) : bundleMap[k].parentGid = row.parent_gid}
         IN  IF at # {}
             THEN LET k == CHOOSE x \in at : TRUE
                  IN  GroupRows(Tail(rows),
                        [bundleMap EXCEPT ![k].children =
                            Append(@, Child(row.child_gid, row.quantity))])
             ELSE GroupRows(Tail(rows),
                    Append(bundleMap, [parentGid |-> row.parent_gid,
                                       children |-> <<Child(row.child_gid, row.quantity)>>]))

\* POST and PUT /api/bundles: `typeof child.quantity !== "number" ||
\* child.quantity < 1` for some child.
RestRejectsChildren(children) ==
    \E k \in 1..Len(children) : children[k].quantity < 1

\* A Bundle table without its unique index on (shopId, parentGid).
NoParentIndex(S, parentGid) == TRUE

\* Bundle_shopId_parentGid_key: a row can be inserted when no row has its
\* parent.
CanCreateBundle(S, parentGid) == \A b \in S : b.parentGid # parentGid

\* db.bundle.findUnique({ where: { shopId_parentGid } }): the rows found.
FindByParent(S, parentGid) == {b \in S : b.parentGid = parentGid}

\* Ids (cuid) of new rows: never one that is in use.
BundleIdPool == <<"b1", "b2", "b3", "b4", "b5", "b6">>
NewBundleId(S) ==
    BundleIdPool[CHOOSE k \in 1..Len(BundleIdPool) :
                    /\ \A b \in S : b.id # BundleIdPool[k]
                    /\ \A j \in 1..(k - 1) : \E b \in S : b.id = BundleIdPool[j]]

\* children: { deleteMany: {}, create: children.map(...) } on the bundle
\* with the id.
ReplaceChildren(S, bundleId, children) ==
    {IF b.id = bundleId THEN [b EXCEPT !.children = children] ELSE b : b \in S}

\* Some row of S is no longer in T as it was.
Touched(S, T) == \E b \in S : b \notin T

\* What is kept of a store request once it has been answered.
StoreSummary(r, outcome) ==
    [route |-> r.entry, parentGid |-> r.parentGid, children |-> r.children,
     outcome |-> outcome, foundExisting |-> r.foundExisting, overwrote |-> r.overwrote,
     created |-> r.created, updated |-> r.updated, errors |-> r.errors]

\* The request of worker w is answered.
StoreAnswer(w, r, outcome) ==
    /\ proc' = [proc EXCEPT ![w] = IdleProc]
    /\ hist' = <<StoreSummary(r, outcome)>>

\* The request of worker w goes on at pc with locals r.
StoreGoes(w, pc, r) ==
    /\ proc' = [proc EXCEPT ![w] = [IdleProc EXCEPT !.pc = pc, !.route = r.entry, !.req = r]]
    /\ hist' = <<>>

\* The create form is posted: missing fields and an empty children list are
\* answered with an error, otherwise the shop row is upserted.
StartForm(w, parentGid, children) ==
    /\ FirstIdle(w)
    /\ runs < MaxRequests
    /\ runs' = runs + 1
    /\ LET r == [NoReq EXCEPT !.entry = "form", !.parentGid = parentGid,
                              !.children = children]
       IN  IF Len(children) = 0
           THEN StoreAnswer(w, r, "invalid")
           ELSE StoreGoes(w, "store_find", r)
    /\ UNCHANGED <<now, ticks, locks, bundles, ledger, faults, acq, dd, inbox, call>>

\* POST /api/bundles: the body is validated (children not empty, every
\* quantity a number >= 1), then the shop row is upserted.
StartRest(w, parentGid, children) ==
    /\ FirstIdle(w)
    /\ runs < MaxRequests
    /\ runs' = runs + 1
    /\ LET r == [NoReq EXCEPT !.entry = "rest", !.parentGid = parentGid,
                              !.children = children]
       IN  IF Len(children) = 0 \/ RestRejectsChildren(children)
           THEN StoreAnswer(w, r, "invalid")
           ELSE StoreGoes(w, "store_find", r)
    /\ UNCHANGED <<now, ticks, locks, bundles, ledger, faults, acq, dd, inbox, call>>

\* The CSV import is posted: the rows are parsed and grouped by parent; with
\* no valid row there is nothing to save.
StartImport(w, lines) ==
    /\ FirstIdle(w)
    /\ runs < MaxRequests
    /\ runs' = runs + 1
    /\ LET groups == GroupRows(ParseRows(lines), <<>>)
           r == [NoReq EXCEPT !.entry = "csv", !.groups = groups, !.k = 1,
                              !.errors = Len(lines) - Len(ParseRows(lines))]
       IN  IF Len(groups) = 0
           THEN StoreAnswer(w, r, "imported")
           ELSE StoreGoes(w, "store_find",
                          [r EXCEPT !.parentGid = groups[1].parentGid,
                                    !.children = groups[1].children])
    /\ UNCHANGED <<now, ticks, locks, bundles, ledger, faults, acq, dd, inbox, call>>

\* The import is done with the group at hand: on to the next one, or the
\* result is returned.
ImportNext(w, r) ==
    IF r.k < Len(r.groups)
    THEN StoreGoes(w, "store_find",
                   [r EXCEPT !.k = @ + 1,
                             !.parentGid = r.groups[r.k + 1].parentGid,
                             !.children = r.groups[r.k + 1].children])
    ELSE StoreAnswer(w, r, "imported")

\* findUnique by (shop, parent): the form and POST answer an error when a
\* bundle exists, the import goes on to update it.
StoreFind(w) ==
    /\ proc[w].pc = "store_find"
    /\ LET r == proc[w].req
           existing == FindByParent(bundles, r.parentGid)
       IN  IF existing = {}
           THEN StoreGoes(w, "store_create", r)
           ELSE IF r.entry = "csv"
                THEN StoreGoes(w, "store_update",
                               [r EXCEPT !.foundExisting = TRUE,
                                         !.bundleId = (CHOOSE b \in existing : TRUE).id])
                ELSE StoreAnswer(w, [r EXCEPT !.foundExisting = TRUE], "rejected")
    /\ UNCHANGED <<now, ticks, locks, bundles, ledger, faults, runs, acq, dd, inbox, call>>

\* db.bundle.create with its children: the unique index rejects a second row
\* for the parent; the form and POST let that exception out, the import
\* catches it and reports it.
StoreCreate(w) ==
    /\ proc[w].pc = "store_create"
    /\ LET r == proc[w].req
       IN  IF CanCreateBundle(bundles, r.parentGid)
           THEN /\ bundles' = bundles \cup
                        {Bundle(NewBundleId(bundles), r.parentGid, r.children)}
                /\ IF r.entry = "csv"
                   THEN ImportNext(w, [r EXCEPT !.created = @ + 1,
                                                !.overwrote = @ \/ Touched(bundles, bundles')])
                   ELSE StoreAnswer(w, [r EXCEPT !.created = 1,
                                                 !.overwrote = Touched(bundles, bundles')],
                                    "created")
           ELSE /\ bundles' = bundles
                /\ IF r.entry = "csv"
                   THEN ImportNext(w, [r EXCEPT !.foundExisting = TRUE, !.errors = @ + 1])
                   ELSE StoreAnswer(w, [r EXCEPT !.foundExisting = TRUE], "threw")
    /\ UNCHANGED <<now, ticks, locks, ledger, faults, runs, acq, dd, inbox, call>>

\* The import's db.bundle.update of the bundle it found: name, flag and
\* children are replaced by the file's.
StoreUpdate(w) ==
    /\ proc[w].pc = "store_update"
    /\ LET r == proc[w].req
       IN  /\ bundles' = ReplaceChildren(bundles, r.bundleId, r.children)
           /\ ImportNext(w, [r EXCEPT !.updated = @ + 1,
                                      !.overwrote = @ \/ Touched(bundles, bundles')])
    /\ UNCHANGED <<now, ticks, locks, ledger, faults, runs, acq, dd, inbox, call>>

\* The edit form is posted with intent "update" for an existing bundle: an
\* empty children list is answered with an error, otherwise the children
\* are replaced as they come.
EditForm(w, bundleId, children) ==
    /\ FirstIdle(w)
    /\ runs < MaxRequests
    /\ runs' = runs + 1
    /\ \E b \in bundles : b.id = bundleId
    /\ LET r == [NoReq EXCEPT !.entry = "edit", !.bundleId = bundleId,
                              !.children = children]
       IN  IF Len(children) = 0
           THEN /\ bundles' = bundles
                /\ StoreAnswer(w, r, "invalid")
           ELSE /\ bundles' = ReplaceChildren(bundles, bundleId, children)
                /\ StoreAnswer(w, [r EXCEPT !.updated = 1,
                                            !.overwrote = Touched(bundles, bundles')],
                               "updated")
    /\ UNCHANGED <<now, ticks, locks, ledger, faults, acq, dd, inbox, call>>

\* PUT /api/bundles/:id: the bundle is looked up, then the children of the
\* body are validated.
StartPut(w, bundleId, children) ==
    /\ FirstIdle(w)
    /\ runs < MaxRequests
    /\ runs' = runs + 1
    /\ LET r == [NoReq EXCEPT !.entry = "put", !.bundleId = bundleId,
                              !.children = children]
       IN  IF \A b \in bundles : b.id # bundleId
           THEN StoreAnswer(w, r, "notfound")
           ELSE IF Len(children) = 0 \/ RestRejectsChildren(children)
                THEN StoreAnswer(w, r, "invalid")
                ELSE StoreGoes(w, "put_update", r)
    /\ UNCHANGED <<now, ticks, locks, bundles, ledger, faults, acq, dd, inbox, call>>

\* PUT /api/bundles/:id: db.bundle.update replaces the children.
PutUpdate(w) ==
    /\ proc[w].pc = "put_update"
    /\ LET r == proc[w].req
       IN  /\ bundles' = ReplaceChildren(bundles, r.bundleId, r.children)
           /\ StoreAnswer(w, [r EXCEPT !.updated = 1,
                                       !.overwrote = Touched(bundles, bundles')],
                          "updated")
    /\ UNCHANGED <<now, ticks, locks, ledger, faults, runs, acq, dd, inbox, call>>

\* The bundle store of a shop that has no bundle yet or has the 2-pack, and
\* the requests that write it, two of them at a time.
InitStore ==
    /\ now = 0
    /\ ticks = 0
    /\ locks = {}
    /\ bundles \in {{}, {Bundle("b1", "B", <<Child("A", 2)>>)}}
    /\ ledger = [l \in Locations |-> NoLevels]
    /\ faults = 0
    /\ proc = [w \in Workers |-> IdleProc]
    /\ runs = 0
    /\ hist = <<>>
    /\ acq = [w \in Workers |-> NoAcq]
    /\ dd = [m \in Messages |-> NoDeliveries]
    /\ inbox = {}
    /\ call = NoCall

NextStore ==
    \/ \E w \in Workers, g \in StoreParents, cs \in StoreChildLists : StartForm(w, g, cs)
    \/ \E w \in Workers, g \in StoreParents, cs \in StoreChildLists : StartRest(w, g, cs)
    \/ \E w \in Workers, lines \in CsvFiles : StartImport(w, lines)
    \/ \E w \in Workers : StoreFind(w)
    \/ \E w \in Workers : StoreCreate(w)
    \/ \E w \in Workers : StoreUpdate(w)
    \/ \E w \in Workers, id \in {"b1", "b2"}, cs \in StoreChildLists : EditForm(w, id, cs)
    \/ \E w \in Workers, id \in {"b1", "b2"}, cs \in StoreChildLists : StartPut(w, id, cs)
    \/ \E w \in Workers : PutUpdate(w)

SpecStore == InitStore /\ [][NextStore]_vars

\* ------------------------------------------------- the exported calculators
\* Arguments the calculators are called with.
Units == 0..MaxUnits
Quantities == (-1)..MaxQuantity
ComponentLists ==
    UNION {[1..n -> [stock : Units, quantity : Quantities]] : n \in 0..MaxComponents}

\* Order line items of a pick list: two variants, two descriptions, and
\* quantities 1..MaxQuantity.
VariantGids == {"gid://shopify/ProductVariant/1", "gid://shopify/ProductVariant/2"}
Descriptions ==
    {[productTitle |-> "First Title", variantTitle |-> "First Variant", sku |-> "FIRST-SKU"],
     [productTitle |-> "Second Title", variantTitle |-> "Second Variant", sku |-> "SECOND-SKU"]}
OrderLineItems ==
    {[variantGid |-> g, productTitle |-> d.productTitle, variantTitle |-> d.variantTitle,
      sku |-> d.sku, quantity |-> q] :
        g \in VariantGids, d \in Descriptions, q \in 1..MaxQuantity}
ItemLists == UNION {[1..n -> OrderLineItems] : n \in 0..MaxItems}

\* An aggregation in which a later item of a variant replaces the entry and
\* takes over its quantity.
RECURSIVE OverwriteFrom(_, _)
OverwriteFrom(items, aggregated) ==
    IF items = <<>> THEN aggregated
    ELSE LET item == Head(items)
             at == {k \in 1..Len(aggregated) : aggregated[k].variantGid = item.variantGid}
         IN  IF at # {}
             THEN LET k == CHOOSE x \in at : TRUE
                  IN  OverwriteFrom(Tail(items),
                        [aggregated EXCEPT ![k] =
                            [item EXCEPT !.quantity = aggregated[k].quantity + @]])
             ELSE OverwriteFrom(Tail(items), Append(aggregated, item))

\* The for-loop of aggregateItems over the items left, with the Map built so
\* far as the sequence of its values in insertion order: an item whose
\* variantGid has an entry adds its quantity to it, any other item is
\* copied in as a new entry.
RECURSIVE AggregateFrom(_, _)
AggregateFrom(items, aggregated) ==
    IF items = <<>> THEN aggregated
    ELSE LET item == Head(items)
             at == {k \in 1..Len(aggregated) : aggregated[k].variantGid = item.variantGid}
         IN  IF at # {}
             THEN LET k == CHOOSE x \in at : TRUE
                  IN  AggregateFrom(Tail(items),
                        [aggregated EXCEPT ![k].quantity = @ + item.quantity])
             ELSE AggregateFrom(Tail(items), Append(aggregated, item))

\* aggregateItems: Array.from(aggregated.values()) after the loop.
aggregateItems(items) == AggregateFrom(items, <<>>)

\* Pick list items: addBinLocations gives every aggregated item the bin
\* location stored for its variant, or null.  The stored location is any
\* text, the empty text included.
Null == "null"
BinLocations == {Null, "", "A-01", "B-02"}
PickListItems ==
    {[variantGid |-> "gid://shopify/ProductVariant/1", productTitle |-> "Lager",
      variantTitle |-> "Single", sku |-> "LAGER-1", quantity |-> 10, binLocation |-> b] :
        b \in BinLocations}
    \cup
    {[variantGid |-> "gid://shopify/ProductVariant/2", productTitle |-> "Ale",
      variantTitle |-> "6-Pack", sku |-> "ALE-6", quantity |-> 5, binLocation |-> b] :
        b \in BinLocations}
PickLists == UNION {[1..n -> PickListItems] : n \in 0..MaxItems}
SortFields == {"binLocation", "product", "quantity"}
SortDirections == {"asc", "desc"}

\* a.localeCompare(b) on the texts of the model: their place in the collation.
Collation == <<"", "6-Pack", "A-01", "Ale", "B-02", "Lager", "Single">>
Place(t) == CHOOSE k \in 1..Len(Collation) : Collation[k] = t
localeCompare(a, b) ==
    IF Place(a) < Place(b) THEN -1 ELSE IF Place(a) > Place(b) THEN 1 ELSE 0

\* !x.binLocation: null and the empty text are falsy.
NoBin(x) == x.binLocation = Null \/ x.binLocation = ""

\* A comparator whose answers for a missing bin location follow the
\* direction as well.
CompareAllByDirection(a, b, sortBy, direction) ==
    LET multiplier == IF direction = "asc" THEN 1 ELSE -1
    IN  CASE sortBy = "binLocation" ->
                IF NoBin(a) /\ NoBin(b) THEN 0
                ELSE IF NoBin(a) THEN multiplier
                ELSE IF NoBin(b) THEN -multiplier
                ELSE multiplier * localeCompare(a.binLocation, b.binLocation)
          [] sortBy = "product" ->
                IF localeCompare(a.productTitle, b.productTitle) # 0
                THEN multiplier * localeCompare(a.productTitle, b.productTitle)
                ELSE multiplier * localeCompare(a.variantTitle, b.variantTitle)
          [] sortBy = "quantity" -> multiplier * (a.quantity - b.quantity)
          [] OTHER -> 0

\* The comparator sortItems hands to Array.prototype.sort.
CompareItems(a, b, sortBy, direction) ==
    LET multiplier == IF direction = "asc" THEN 1 ELSE -1
    IN  CASE sortBy = "binLocation" ->
                IF NoBin(a) /\ NoBin(b) THEN 0
                ELSE IF NoBin(a) THEN 1
                ELSE IF NoBin(b) THEN -1
                ELSE multiplier * localeCompare(a.binLocation, b.binLocation)
          [] sortBy = "product" ->
                IF localeCompare(a.productTitle, b.productTitle) # 0
                THEN multiplier * localeCompare(a.productTitle, b.productTitle)
                ELSE multiplier * localeCompare(a.variantTitle, b.variantTitle)
          [] sortBy = "quantity" -> multiplier * (a.quantity - b.quantity)
          [] OTHER -> 0

\* Array.prototype.sort is stable: an item goes in front of the first item
\* already placed that the comparator puts after it.
InsertStable(sorted, x, sortBy, direction) ==
    LET after == {k \in 1..Len(sorted) : CompareItems(sorted[k], x, sortBy, direction) > 0}
        at == IF after = {} THEN Len(sorted) + 1
              ELSE CHOOSE k \in after : \A j \in after : k <= j
    IN  SubSeq(sorted, 1, at - 1) \o <<x>> \o SubSeq(sorted, at, Len(sorted))

RECURSIVE SortFrom(_, _, _, _)
SortFrom(items, sorted, sortBy, direction) ==
    IF items = <<>> THEN sorted
    ELSE SortFrom(Tail(items), InsertStable(sorted, Head(items), sortBy, direction),
                  sortBy, direction)

\* sortItems: [...items].sort(comparator)
sortItems(items, sortBy, direction) == SortFrom(items, <<>>, sortBy, direction)

\* Bundle rows as expandBundles reads them: k1 makes variant 1 out of two
\* of variant 2 and one of variant 3, k2 makes variant 2 out of three of
\* variant 3; each is flagged expandOnPick or not.
ExpandTables ==
    {{[id |-> "k1", parentGid |-> "gid://shopify/ProductVariant/1", expandOnPick |-> e1,
       children |-> <<Child("gid://shopify/ProductVariant/2", 2),
                      Child("gid://shopify/ProductVariant/3", 1)>>],
      [id |-> "k2", parentGid |-> "gid://shopify/ProductVariant/2", expandOnPick |-> e2,
       children |-> <<Child("gid://shopify/ProductVariant/3", 3)>>]} :
        e1 \in BOOLEAN, e2 \in BOOLEAN}

\* Line items of the orders: the two parent variants, quantities 1..MaxQuantity.
ExpandLineItems ==
    {x \in OrderLineItems : x.productTitle = "First Title"}
ExpandLists == UNION {[1..n -> ExpandLineItems] : n \in 0..MaxItems}

\* fetchVariantInfo: the gateway's nodes for the child gids; a node that no
\* longer exists is missing from the map.
VariantInfos ==
    {[g \in {"gid://shopify/ProductVariant/2", "gid://shopify/ProductVariant/3"} |->
        IF g \in known
        THEN [found |-> TRUE, productTitle |-> "Component", variantTitle |-> g, sku |-> "SKU"]
        ELSE [found |-> FALSE, productTitle |-> "", variantTitle |-> "", sku |-> ""]] :
       known \in {{"gid://shopify/ProductVariant/2", "gid://shopify/ProductVariant/3"},
                  {"gid://shopify/ProductVariant/2"}}}

\* A lookup that leaves out `expandOnPick: true`.
BundlesOfParents(table, variantGids) ==
    {b \in table : b.parentGid \in variantGids}

\* db.bundle.findMany({ parentGid: { in: variantGids }, expandOnPick: true })
expandableBundles(table, variantGids) ==
    {b \in table : b.parentGid \in variantGids /\ b.expandOnPick}

\* The derived line item of one component.
ChildLineItem(item, child, childVariantInfo) ==
    LET childInfo == childVariantInfo[child.childGid]
    IN  [variantGid |-> child.childGid,
         productTitle |-> IF childInfo.found THEN childInfo.productTitle ELSE "Unknown Product",
         variantTitle |-> IF childInfo.found THEN childInfo.variantTitle ELSE "Unknown Variant",
         sku |-> IF childInfo.found THEN childInfo.sku ELSE Null,
         quantity |-> item.quantity * child.quantity]

\* The for-loop of expandBundles over the line items left: an item whose
\* variant is in bundleMap pushes one item per child, any other is pushed
\* as it is.
RECURSIVE ExpandFrom(_, _, _, _)
ExpandFrom(lineItems, result, bundleMap, childVariantInfo) ==
    IF lineItems = <<>> THEN result
    ELSE LET item == Head(lineItems)
             found == {b \in bundleMap : b.parentGid = item.variantGid}
         IN  IF found # {}
             THEN LET bundle == CHOOSE b \in found : TRUE
                  IN  ExpandFrom(Tail(lineItems),
                        result \o [k \in 1..Len(bundle.children) |->
                                      ChildLineItem(item, bundle.children[k], childVariantInfo)],
                        bundleMap, childVariantInfo)
             ELSE ExpandFrom(Tail(lineItems), Append(result, item),
                             bundleMap, childVariantInfo)

\* expandBundles over the Bundle rows of the shop and the gateway's answer.
expandBundles(lineItems, table, childVariantInfo) ==
    LET variantGids == {lineItems[k].variantGid : k \in 1..Len(lineItems)}
    IN  ExpandFrom(lineItems, <<>>, expandableBundles(table, variantGids), childVariantInfo)

PendingCall(fn, args) == [fn |-> fn, args |-> args, done |-> FALSE, out |-> <<>>]

\* calculateBundleAvailability(physicalStock, multiplier) is called.
CallBundleAvailability ==
    /\ call.fn = "calculateBundleAvailability" /\ ~call.done
    /\ call' = [call EXCEPT !.done = TRUE,
                            !.out = calculateBundleAvailability(call.args[1], call.args[2])]
    /\ UNCHANGED <<now, ticks, locks, bundles, ledger, faults, proc, runs, hist, acq, dd, inbox>>

\* calculateMixedBundleAvailability(components) is called.
CallMixedBundleAvailability ==
    /\ call.fn = "calculateMixedBundleAvailability" /\ ~call.done
    /\ call' = [call EXCEPT !.done = TRUE,
                            !.out = calculateMixedBundleAvailability(call.args[1])]
    /\ UNCHANGED <<now, ticks, locks, bundles, ledger, faults, proc, runs, hist, acq, dd, inbox>>

\* aggregateItems(items) is called.
CallAggregateItems ==
    /\ call.fn = "aggregateItems" /\ ~call.done
    /\ call' = [call EXCEPT !.done = TRUE, !.out = aggregateItems(call.args[1])]
    /\ UNCHANGED <<now, ticks, locks, bundles, ledger, faults, proc, runs, hist, acq, dd, inbox>>

\* sortItems(items, sortBy, direction) is called.
CallSortItems ==
    /\ call.fn = "sortItems" /\ ~call.done
    /\ call' = [call EXCEPT !.done = TRUE,
                            !.out = sortItems(call.args[1], call.args[2], call.args[3])]
    /\ UNCHANGED <<now, ticks, locks, bundles, ledger, faults, proc, runs, hist, acq, dd, inbox>>

\* expandBundles(admin, shop, lineItems) is called and both its reads answer.
CallExpandBundles ==
    /\ call.fn = "expandBundles" /\ ~call.done
    /\ call' = [call EXCEPT !.done = TRUE,
                            !.out = expandBundles(call.args[1], call.args[2], call.args[3])]
    /\ UNCHANGED <<now, ticks, locks, bundles, ledger, faults, proc, runs, hist, acq, dd, inbox>>

\* One call of one pure function, with any arguments within the bounds.
InitPure ==
    /\ now = 0
    /\ ticks = 0
    /\ locks = {}
    /\ bundles = {}
    /\ ledger = [l \in Locations |-> NoLevels]
    /\ faults = 0
    /\ proc = [w \in Workers |-> IdleProc]
    /\ runs = 0
    /\ hist = <<>>
    /\ acq = [w \in Workers |-> NoAcq]
    /\ dd = [m \in Messages |-> NoDeliveries]
    /\ inbox = {}
    /\ \/ \E s \in Units, m \in Quantities :
            call = PendingCall("calculateBundleAvailability", <<s, m>>)
       \/ \E cs \in ComponentLists :
            call = PendingCall("calculateMixedBundleAvailability", <<cs>>)
       \/ \E items \in ItemLists :
            call = PendingCall("aggregateItems", <<items>>)
       \/ \E items \in PickLists, sortBy \in SortFields, direction \in SortDirections :
            call = PendingCall("sortItems", <<items, sortBy, direction>>)
       \/ \E lineItems \in ExpandLists, table \in ExpandTables, info \in VariantInfos :
            call = PendingCall("expandBundles", <<lineItems, table, info>>)

NextPure ==
    \/ CallBundleAvailability
    \/ CallMixedBundleAvailability
    \/ CallAggregateItems
    \/ CallSortItems
    \/ CallExpandBundles

SpecPure == InitPure /\ [][NextPure]_vars


\* C4: the chain of events the app's own adjustments cause comes to an end,
\* whatever the bundles are.
C4_FeedbackChainEnds == <>[]Settled

\* --------------------------------------------------------- ingress claims
\* C5 (as stated): of the pushes carrying one messageId, at most one calls
\* processInventoryUpdate, plus one for every earlier invocation that failed
\* and removed the dedup lock; a push that does not call it is answered 200.
C5_OneInvocationPerMessage ==
    /\ \A m \in Messages : dd[m].invoked <= 1 + dd[m].failed
    /\ \A i \in 1..Len(hist) :
         (hist[i].route = "pubsub" /\ ~hist[i].invoked) => hist[i].status = 200

\* C5 (amended): the dedup lock of a messageId also goes away when the
\* expired-lock cleanup of acquireSyncLock removes it, 24 h after its
\* creation; each such removal lets one more push call processInventoryUpdate.
C5_OneInvocationPerDedupLock ==
    /\ \A m \in Messages :
         dd[m].invoked <= 1 + dd[m].failed + dd[m].collected
    /\ \A m \in Messages :
         dd[m].collected = 0 => dd[m].invoked <= 1 + dd[m].failed
    /\ \A i \in 1..Len(hist) :
         (hist[i].route = "pubsub" /\ ~hist[i].invoked) => hist[i].status = 200

\* A second push of a message id whose first push succeeded has just been
\* answered as a duplicate.
C5_Witness ==
    /\ Len(hist) = 1
    /\ hist[1].route = "pubsub"
    /\ ~hist[1].invoked
    /\ hist[1].status = 200
    /\ dd[hist[1].msg].invoked = 1
    /\ dd[hist[1].msg].failed = 0

\* C10: whatever acquire, release and dedup creations have run, the lock
\* table holds at most one unexpired row per lock id.
C10_OneLiveLockPerId ==
    \A l1 \in locks, l2 \in locks :
        (l1.id = l2.id /\ ~(l1.expiresAt < now) /\ ~(l2.expiresAt < now)) => l1 = l2

\* A create has just been rejected because a live row holds the id.
C10_Witness ==
    /\ Len(hist) = 1
    /\ hist[1].lockFailed
    /\ \E l \in locks : l.id = hist[1].lastLock /\ ~(l.expiresAt < now)

\* ------------------------------------------------------ orchestrator claims
\* The worker is between a successful acquireSyncLock and the end of the
\* matching releaseSyncLock.
InCritical(w) == proc[w].pc \in {"calc", "adjust", "release"}

\* C2: two processInventoryUpdate invocations are never both between a
\* successful acquireSyncLock and the matching releaseSyncLock for the same
\* bundle at the same location.
C2_OneReconcilerPerBundle ==
    \A w \in Workers :
        LET o == Other(w)
        IN  ~(/\ InCritical(w) /\ InCritical(o)
              /\ proc[w].lockBundle = proc[o].lockBundle
              /\ proc[w].event.loc = proc[o].event.loc)

\* C3: a run of processInventoryUpdate that repeats the event of the run
\* before it, with nothing else changing the ledger in between, returns
\* adjustmentsMade = 0 and sends no adjustment.
C3_RepeatedEventIsNoOp ==
    (hist # <<>> /\ hist[1].repeat /\ CleanRun(hist[1]))
        => (hist[1].result.adjustmentsMade = 0 /\ hist[1].issued = <<>>)

\* C6: no sync lock is in the table unless the invocation that created it is
\* still between its acquire and the end of its release; so when
\* processInventoryUpdate has returned or thrown, none of its locks is left.
C6_NoLockLeftBehind ==
    \A l \in locks :
        l.id[1] = "sync" => (InCritical(l.owner) /\ proc[l.owner].lockId = l.id)

\* C6 witness: an invocation that held a lock has thrown, and the lock is gone.
C6_Witness ==
    /\ hist # <<>>
    /\ hist[1].threw /\ hist[1].acquired
    /\ ~HasLock(locks, hist[1].lastLock)

\* C7: when a gateway call made for one affected bundle fails,
\* processInventoryUpdate does not throw and goes through all its bundles.
C7_FailureStaysInBundle ==
    (hist # <<>> /\ hist[1].gwFailed /\ hist[1].bundleList # <<>>)
        => /\ ~hist[1].threw
           /\ hist[1].result.processed
           /\ hist[1].result.bundlesAffected = Len(hist[1].bundleList)

\* The bundles of the finished run h that hold its event's variant as a component.
ComponentBundles(h) == {b \in bundles : h.variantGid \in ChildGids(b)}

\* The levels run h read when it processed bundle b.
SeenFor(h, b) == (CHOOSE a \in h.attempted : a.id = b.id).levels

\* No component of b, other than the event's variant, is the parent of a
\* bundle that run h went through.
Unnested(h, b) ==
    \A k \in 1..Len(h.bundleList) :
        LET c == BundleById(h.bundleList[k])
        IN  c.parentGid \in ChildGids(b) => c.parentGid = h.variantGid

\* C8 (as stated): after a clean run for an event on a component variant,
\* every bundle containing the variant has its parent's ledger stock equal to
\* the availability of its components, the event's variant counted with the
\* event's value and the others with their ledger stock.
C8_ParentMatchesFinalLedger ==
    (hist # <<>> /\ CleanRun(hist[1]))
        => \A b \in ComponentBundles(hist[1]) :
              hist[1].ledgerEnd[b.parentGid] =
                  ExpectedParentAvailability(b,
                      StockMap(hist[1].ledgerEnd, hist[1].variantGid,
                               hist[1].event.available))

\* C8 (amended): after such a run, the parent of every bundle that holds the
\* variant as a component has the availability computed from the event's value
\* and the levels read when the bundle was processed; that is the availability
\* of the final ledger for every bundle none of whose other components is the
\* parent of a bundle of the same run.
C8_ParentMatchesLevelsRead ==
    (hist # <<>> /\ CleanRun(hist[1]))
        => \A b \in ComponentBundles(hist[1]) :
              /\ hist[1].ledgerEnd[b.parentGid] =
                    ExpectedParentAvailability(b,
                        StockMap(SeenFor(hist[1], b), hist[1].variantGid,
                                 hist[1].event.available))
              /\ Unnested(hist[1], b) =>
                    hist[1].ledgerEnd[b.parentGid] =
                        ExpectedParentAvailability(b,
                            StockMap(hist[1].ledgerEnd, hist[1].variantGid,
                                     hist[1].event.available))

\* C8 witness: a clean run for an event on A has adjusted both B and P.
C8_Witness ==
    /\ hist # <<>> /\ CleanRun(hist[1])
    /\ hist[1].variantGid = "A"
    /\ Len(hist[1].issued) = 2

\* ------------------------------------------------------ lock manager claims
\* A pair of acquireSyncLock calls for one id that overlapped in time, with no
\* other lock-table operation started while either was in flight, both returned.
PairDone(w) ==
    LET o == Other(w)
    IN  /\ acq[w].done /\ acq[o].done
        /\ acq[w].overlap /\ acq[o].overlap
        /\ ~acq[w].disturbed /\ ~acq[o].disturbed
        /\ acq[w].id = acq[o].id

\* The two calls read the clock no more than the TTL apart.
PairWithinTtl(w) ==
    LET o == Other(w)
    IN  /\ acq[w].t <= acq[o].t + SYNC_LOCK_TTL_MS
        /\ acq[o].t <= acq[w].t + SYNC_LOCK_TTL_MS

\* C1 (as stated): two concurrent acquireSyncLock calls with the same lockId,
\* no lock (or only an expired one) for the id beforehand: exactly one call
\* returns true and the other false, for any interleaving.
C1_ExactlyOneAnyInterleaving ==
    \A w \in Workers :
        (PairDone(w) /\ acq[w].pairPre # "live")
            => (acq[w].result # acq[Other(w)].result)

\* C1 (amended): the same, for two calls whose clock readings are at most
\* SYNC_LOCK_TTL_MS apart; and in every case at least one call returns true.
C1_ExactlyOneWithinTtl ==
    \A w \in Workers :
        (PairDone(w) /\ acq[w].pairPre # "live")
            => /\ acq[w].result \/ acq[Other(w)].result
               /\ PairWithinTtl(w) => (acq[w].result # acq[Other(w)].result)

\* C1 witness: a pair of overlapping calls on an absent or expired lock has
\* finished, one with true and one with false.
C1_Witness ==
    \E w \in Workers :
        /\ PairDone(w) /\ PairWithinTtl(w)
        /\ acq[w].pairPre = "expired"
        /\ acq[w].result /\ ~acq[Other(w)].result

\* C9: a lock for the id is in the table, unreleased, and its TTL has elapsed
\* when acquireSyncLock reads the clock; no other acquire for the id runs
\* alongside: the call returns true.
C9_ExpiredLockReacquired ==
    \A w \in Workers :
        (acq[w].done /\ acq[w].pre = "expired" /\ ~acq[w].overlap /\ ~acq[w].disturbed)
            => acq[w].result

\* C9 witness: such a call has returned true, and its lock is in the table.
C9_Witness ==
    \E w \in Workers :
        /\ acq[w].done /\ acq[w].pre = "expired" /\ ~acq[w].overlap /\ ~acq[w].disturbed
        /\ acq[w].result
        /\ \E l \in locks : l.id = acq[w].id /\ l.expiresAt = acq[w].t + SYNC_LOCK_TTL_MS

\* C11: releaseSyncLock never fails; for an id without a row it leaves the
\* table as it was, and a second call right after the first changes nothing.
C11_ReleaseIsIdempotent ==
    (hist # <<>> /\ hist[1].route = "release")
        => /\ ~hist[1].threw
           /\ ~HasLock(locks, hist[1].lastLock)
           /\ ~hist[1].had => hist[1].same
           /\ hist[1].again => hist[1].same

\* C11 witness: a lock was released and released again, other locks staying.
C11_Witness ==
    /\ hist # <<>> /\ hist[1].route = "release"
    /\ hist[1].again /\ ~hist[1].had
    /\ locks # {}

\* The delta of bundle b for the event of the finished run h, from the levels
\* the run read for it.
DeltaSeen(h, a) ==
    LET b        == BundleById(a.id)
        stockMap == StockMap(a.levels, h.variantGid, h.event.available)
    IN  ExpectedParentAvailability(b, stockMap) - stockMap[b.parentGid]

\* C12: no adjustment is sent for a bundle whose delta is 0, every adjustment
\* sent has a non-zero delta, and the adjustmentsMade of a run that returns is
\* the number of adjustments it sent.
C12_ZeroDeltaSendsNothing ==
    (hist # <<>> /\ hist[1].invoked)
        => /\ \A k \in 1..Len(hist[1].issued) : hist[1].issued[k].delta # 0
           /\ \A a \in hist[1].attempted :
                DeltaSeen(hist[1], a) = 0 =>
                    \A k \in 1..Len(hist[1].issued) :
                        hist[1].issued[k].item # BundleById(a.id).parentGid
           /\ ~hist[1].threw =>
                hist[1].result.adjustmentsMade = Len(hist[1].issued)

\* C12 witness: a run that returned found one bundle at delta 0 and adjusted
\* another.
C12_Witness ==
    /\ hist # <<>> /\ hist[1].invoked /\ ~hist[1].threw
    /\ \E a \in hist[1].attempted : DeltaSeen(hist[1], a) = 0
    /\ Len(hist[1].issued) = 1
    /\ hist[1].result.adjustmentsMade = 1

\* C13: when the gateway knows no variant for the event's inventory item,
\* processInventoryUpdate returns processed = false with zero counts and the
\* skip reason; it does not throw, asks for no lock, reads no bundle's levels
\* and sends no adjustment.
C13_UnresolvedItemIsSkipped ==
    (/\ hist # <<>> /\ hist[1].invoked /\ ~hist[1].gwFailed
     /\ hist[1].event.item \notin Variants)
        => /\ ~hist[1].threw
           /\ hist[1].result =
                [processed |-> FALSE, bundlesAffected |-> 0, adjustmentsMade |-> 0,
                 skipped |-> "Could not find variant for inventory item"]
           /\ hist[1].lastLock = NoLockId /\ ~hist[1].acquired
           /\ hist[1].attempted = {}
           /\ hist[1].issued = <<>>

\* C13 witness: such an event has been answered while another request holds
\* a lock of its own.
C13_Witness ==
    /\ hist # <<>> /\ hist[1].invoked /\ ~hist[1].gwFailed
    /\ hist[1].event.item = "X"
    /\ ~hist[1].result.processed
    /\ locks # {}

\* C14: when the event's variant is neither the parent nor a component of any
\* bundle, processInventoryUpdate returns processed = true with zero counts
\* and the skip reason; it asks for no lock, reads no bundle's levels and
\* sends no adjustment.
C14_NoBundleIsSkipped ==
    (/\ hist # <<>> /\ hist[1].invoked /\ ~hist[1].gwFailed
     /\ hist[1].event.item \in Variants
     /\ \A b \in bundles :
          b.parentGid # hist[1].event.item /\ hist[1].event.item \notin ChildGids(b))
        => /\ ~hist[1].threw
           /\ hist[1].result =
                [processed |-> TRUE, bundlesAffected |-> 0, adjustmentsMade |-> 0,
                 skipped |-> "Variant is not part of any bundle"]
           /\ hist[1].lastLock = NoLockId /\ ~hist[1].acquired
           /\ hist[1].attempted = {}
           /\ hist[1].issued = <<>>

\* C14 witness: an event on P, which is in no bundle, has been answered after
\* an earlier request changed the ledger.
C14_Witness ==
    /\ hist # <<>> /\ hist[1].invoked /\ ~hist[1].gwFailed
    /\ hist[1].event.item = "P"
    /\ hist[1].result.processed
    /\ hist[1].ledgerEnd["B"] # 0

\* The ids of the bundles whose levels the finished run h read.
AttemptedIds(h) == {a.id : a \in h.attempted}

\* C15: in a run without a failing gateway call, a bundle whose lock was not
\* acquired is neither read nor adjusted; the run does not throw, and every
\* other affected bundle is processed.
C15_ContentionSkipsOneBundle ==
    (hist # <<>> /\ hist[1].invoked /\ ~hist[1].gwFailed /\ hist[1].contended # {})
        => /\ ~hist[1].threw
           /\ hist[1].result.processed
           /\ hist[1].result.bundlesAffected = Len(hist[1].bundleList)
           /\ \A id \in hist[1].contended :
                /\ id \notin AttemptedIds(hist[1])
                /\ \A k \in 1..Len(hist[1].issued) :
                     hist[1].issued[k].item # BundleById(id).parentGid
           /\ \A k \in 1..Len(hist[1].bundleList) :
                hist[1].bundleList[k] \in hist[1].contended \cup AttemptedIds(hist[1])

\* C15 witness: a run was refused the lock of its first bundle and adjusted
\* its second.
C15_Witness ==
    /\ hist # <<>> /\ hist[1].invoked /\ ~hist[1].gwFailed
    /\ Len(hist[1].bundleList) = 2
    /\ hist[1].contended = {hist[1].bundleList[1]}
    /\ hist[1].issued # <<>>

\* C16: a push whose processInventoryUpdate threw is answered 500 and leaves
\* no dedup lock for its message; the redelivery that follows it, with no
\* other request alongside, calls processInventoryUpdate again.
C16_FailedPushIsRetried ==
    (hist # <<>> /\ hist[1].route = "pubsub")
        => /\ hist[1].threw =>
                /\ hist[1].status = 500
                /\ ~HasLock(locks, DedupLockId(hist[1].msg))
           /\ (hist[1].retry /\ hist[1].solo) => hist[1].invoked

\* C16 witness: the redelivery of a failed push has been processed and
\* answered 200.
C16_Witness ==
    /\ hist # <<>> /\ hist[1].route = "pubsub"
    /\ hist[1].retry /\ hist[1].solo
    /\ hist[1].invoked /\ ~hist[1].threw /\ hist[1].status = 200
    /\ hist[1].issued # <<>>

\* C17: on both ingress routes a request is answered with a success status
\* when the event was processed, skipped or already handled, and with a
\* non-success status when processInventoryUpdate threw.
C17_AckFollowsOutcome ==
    (hist # <<>> /\ hist[1].route \in {"webhook", "pubsub"})
        => IF hist[1].threw THEN hist[1].status # 200 ELSE hist[1].status = 200

\* The whole packs of m units that s units make up.
WholePacks(s, m) == CHOOSE q \in 0..s : q * m <= s /\ s < (q + 1) * m

\* C18: calculateBundleAvailability(s, m) returns floor(s / m) for s >= 0 and
\* m > 0, which is never less than the result for a smaller s, is s for
\* m = 1 and is 0 for s < m; for m <= 0 it throws "Multiplier must be a
\* positive number".
C18_AvailabilityIsFloor ==
    (call.fn = "calculateBundleAvailability" /\ call.done)
        => LET s == call.args[1]
               m == call.args[2]
           IN  IF m <= 0
               THEN /\ call.out.threw
                    /\ call.out.error = "Multiplier must be a positive number"
               ELSE /\ ~call.out.threw
                    /\ call.out.value = WholePacks(s, m)
                    /\ \A t \in 0..s :
                         calculateBundleAvailability(t, m).value <= call.out.value
                    /\ (m = 1) => call.out.value = s
                    /\ (s < m) => call.out.value = 0

\* C18 witness: a call returned two or more packs with units left over.
C18_Witness ==
    /\ call.fn = "calculateBundleAvailability" /\ call.done
    /\ ~call.out.threw
    /\ call.out.value >= 2
    /\ call.out.value * call.args[2] < call.args[1]

\* C19: calculateMixedBundleAvailability returns 0 for the empty list; throws
\* "Component quantity must be a positive number" when a component has
\* quantity <= 0; else returns the least floor(stock / quantity) of the
\* components, which is 0 when a component has stock 0 and is what
\* calculateBundleAvailability returns when there is one component.
C19_MixedIsLeastFloor ==
    (call.fn = "calculateMixedBundleAvailability" /\ call.done)
        => LET cs == call.args[1]
               ks == 1..Len(cs)
           IN  IF Len(cs) = 0
               THEN ~call.out.threw /\ call.out.value = 0
               ELSE IF \E k \in ks : cs[k].quantity <= 0
               THEN /\ call.out.threw
                    /\ call.out.error = "Component quantity must be a positive number"
               ELSE /\ ~call.out.threw
                    /\ \E k \in ks :
                         call.out.value = WholePacks(cs[k].stock, cs[k].quantity)
                    /\ \A k \in ks :
                         call.out.value <= WholePacks(cs[k].stock, cs[k].quantity)
                    /\ (\E k \in ks : cs[k].stock = 0) => call.out.value = 0
                    /\ (Len(cs) = 1) =>
                         call.out = calculateBundleAvailability(cs[1].stock, cs[1].quantity)

\* C19 witness: a call with two components returned the second component's
\* packs, fewer than the first's and more than none.
C19_Witness ==
    /\ call.fn = "calculateMixedBundleAvailability" /\ call.done
    /\ Len(call.args[1]) = 2
    /\ ~call.out.threw
    /\ call.out.value >= 1
    /\ call.out.value = call.args[1][2].stock \div call.args[1][2].quantity
    /\ call.out.value < call.args[1][1].stock \div call.args[1][1].quantity

\* The quantities of the items of one variant, added up.
RECURSIVE TotalOf(_, _)
TotalOf(items, gid) ==
    IF items = <<>> THEN 0
    ELSE (IF Head(items).variantGid = gid THEN Head(items).quantity ELSE 0)
            + TotalOf(Tail(items), gid)

\* The items in the order p, a permutation of their positions.
Reordered(items, p) == [k \in 1..Len(items) |-> items[p[k]]]

\* C20: aggregateItems returns one entry per distinct variantGid of its
\* input; the entry's quantity is the sum of the quantities of the items of
\* that variant, in whatever order the items come; its productTitle,
\* variantTitle and sku are those of the first item of that variant.
C20_OneEntryPerVariant ==
    (call.fn = "aggregateItems" /\ call.done)
        => LET items == call.args[1]
               out == call.out
               gids == {items[k].variantGid : k \in 1..Len(items)}
           IN  /\ {out[k].variantGid : k \in 1..Len(out)} = gids
               /\ Len(out) = Cardinality(gids)
               /\ \A k \in 1..Len(out) :
                    LET gid == out[k].variantGid
                        first == CHOOSE i \in 1..Len(items) :
                                    /\ items[i].variantGid = gid
                                    /\ \A j \in 1..(i - 1) : items[j].variantGid # gid
                    IN  /\ out[k].quantity = TotalOf(items, gid)
                        /\ out[k].productTitle = items[first].productTitle
                        /\ out[k].variantTitle = items[first].variantTitle
                        /\ out[k].sku = items[first].sku
               /\ \A p \in Perms(1..Len(items)) :
                    LET other == aggregateItems(Reordered(items, p))
                    IN  \A k \in 1..Len(out) :
                          \E j \in 1..Len(other) :
                            /\ other[j].variantGid = out[k].variantGid
                            /\ other[j].quantity = out[k].quantity

\* C20 witness: three items, two of them of one variant with different
\* descriptions and an item of the other variant between them, came out as
\* two entries.
C20_Witness ==
    /\ call.fn = "aggregateItems" /\ call.done
    /\ Len(call.args[1]) = 3
    /\ call.args[1][1].variantGid = call.args[1][3].variantGid
    /\ call.args[1][1].variantGid # call.args[1][2].variantGid
    /\ call.args[1][1].productTitle # call.args[1][3].productTitle
    /\ Len(call.out) = 2
    /\ call.out[1].quantity = call.args[1][1].quantity + call.args[1][3].quantity
    /\ call.out[1].sku = call.args[1][1].sku

\* How many times x occurs in the sequence.
Occurrences(seq, x) == Cardinality({k \in 1..Len(seq) : seq[k] = x})

\* The output has the items of the input, each as often as the input has it.
SamePickItems(out, items) ==
    /\ Len(out) = Len(items)
    /\ \A x \in PickListItems : Occurrences(out, x) = Occurrences(items, x)

\* The items whose bin location is not one of `missing` stand in the order of
\* the direction, and in front of every item whose bin location is.
BinOrder(out, direction, missing) ==
    \A i, j \in 1..Len(out) :
        i < j =>
            /\ out[i].binLocation \in missing => out[j].binLocation \in missing
            /\ (out[i].binLocation \notin missing /\ out[j].binLocation \notin missing) =>
                    IF direction = "asc"
                    THEN localeCompare(out[i].binLocation, out[j].binLocation) <= 0
                    ELSE localeCompare(out[i].binLocation, out[j].binLocation) >= 0

\* C21 as stated: sortItems by binLocation returns a permutation of its input
\* in which every item with a null bin location comes after every item with
\* a non-null one, in both directions, the non-null items in the order of
\* the direction.
C21_NullBinsLast ==
    (call.fn = "sortItems" /\ call.done /\ call.args[2] = "binLocation")
        => /\ SamePickItems(call.out, call.args[1])
           /\ BinOrder(call.out, call.args[3], {Null})

\* C21 amended: the same with "missing" meaning null or empty: every item
\* whose bin location is null or the empty text comes after every item with
\* a non-empty bin location, and the items with a non-empty bin location
\* stand in the order of the direction.
C21_MissingBinsLast ==
    (call.fn = "sortItems" /\ call.done /\ call.args[2] = "binLocation")
        => /\ SamePickItems(call.out, call.args[1])
           /\ BinOrder(call.out, call.args[3], {b \in BinLocations : NoBin([binLocation |-> b])})

\* C21 witness: a descending sort by bin location moved an item without a
\* location from the front to the end and put B-02 in front of A-01.
C21_Witness ==
    /\ call.fn = "sortItems" /\ call.done
    /\ call.args[2] = "binLocation" /\ call.args[3] = "desc"
    /\ Len(call.args[1]) = 3
    /\ call.args[1][1].binLocation = Null
    /\ call.args[1][2].binLocation = "A-01"
    /\ call.args[1][3].binLocation = "B-02"
    /\ call.out[1].binLocation = "B-02"
    /\ call.out[3].binLocation = Null

\* The bundle flagged expandOnPick whose parent is the variant, if any.
ExpandableOf(table, gid) == {b \in table : b.parentGid = gid /\ b.expandOnPick}

\* How many output items a line item comes to: its bundle's components, or
\* itself.
Span(table, item) ==
    IF ExpandableOf(table, item.variantGid) = {} THEN 1
    ELSE Len((CHOOSE b \in ExpandableOf(table, item.variantGid) : TRUE).children)

\* Where in the output the items of the k-th line item begin (less one).
RECURSIVE Offset(_, _, _)
Offset(table, lineItems, k) ==
    IF k = 1 THEN 0
    ELSE Offset(table, lineItems, k - 1) + Span(table, lineItems[k - 1])

\* C22: every line item whose variant is the parent of a bundle flagged
\* expandOnPick stands in the output as one item per component with the line
\* quantity times the component quantity; every other line item stands
\* there unchanged, in its place; and a component is never expanded itself.
C22_ExpansionIsOneLevel ==
    (call.fn = "expandBundles" /\ call.done)
        => LET lineItems == call.args[1]
               table == call.args[2]
               out == call.out
               n == Len(lineItems)
           IN  /\ Len(out) = IF n = 0 THEN 0
                             ELSE Offset(table, lineItems, n) + Span(table, lineItems[n])
               /\ \A k \in 1..n :
                    LET item == lineItems[k]
                        at == Offset(table, lineItems, k)
                        bs == ExpandableOf(table, item.variantGid)
                    IN  IF bs = {}
                        THEN out[at + 1] = item
                        ELSE \A b \in bs : \A c \in 1..Len(b.children) :
                                /\ out[at + c].variantGid = b.children[c].childGid
                                /\ out[at + c].quantity = item.quantity * b.children[c].quantity

\* C22 witness: with both bundles flagged, a line of variant 1 came out as
\* its two components, the first of them the parent of the other bundle and
\* left as it is, and the line of variant 2 after it as its own component.
C22_Witness ==
    /\ call.fn = "expandBundles" /\ call.done
    /\ \A b \in call.args[2] : b.expandOnPick
    /\ Len(call.args[1]) = 2
    /\ call.args[1][1].variantGid = "gid://shopify/ProductVariant/1"
    /\ call.args[1][1].quantity = 2
    /\ call.args[1][2].variantGid = "gid://shopify/ProductVariant/2"
    /\ Len(call.out) = 3
    /\ call.out[1].variantGid = "gid://shopify/ProductVariant/2"
    /\ call.out[1].quantity = 4
    /\ call.out[3].variantGid = "gid://shopify/ProductVariant/3"

\* No two Bundle rows have the same parent variant.
OneBundlePerParent ==
    \A b1, b2 \in bundles : b1.parentGid = b2.parentGid => b1 = b2

\* The request answered last met a bundle for its parent, was refused and
\* changed no row.
RefusedUntouched(h) ==
    h.foundExisting => (h.outcome \in {"rejected", "threw"} /\ ~h.overwrote)

\* C23 as stated: a shop has at most one bundle per parent variant, and a
\* create through the form, POST or the CSV import for a parent that has a
\* bundle is rejected and leaves that bundle as it is.
C23_CreateRejectsExistingParent ==
    /\ OneBundlePerParent
    /\ (hist # <<>> /\ hist[1].route \in {"form", "rest", "csv"})
            => RefusedUntouched(hist[1])

\* C23 amended: a shop has at most one bundle per parent variant; a create
\* through the form or POST for a parent that has a bundle is rejected and
\* leaves that bundle as it is; the CSV import changes a row only when it
\* found a bundle for a parent of the file, which it updates.
C23_OnlyImportUpdatesExisting ==
    /\ OneBundlePerParent
    /\ (hist # <<>> /\ hist[1].route \in {"form", "rest"})
            => RefusedUntouched(hist[1])
    /\ (hist # <<>> /\ hist[1].route = "csv")
            => (hist[1].overwrote => (hist[1].foundExisting /\ hist[1].updated > 0))

\* C23 witness: a create that found no bundle for its parent lost the race
\* to another create and was refused by the unique index.
C23_Witness ==
    /\ hist # <<>> /\ hist[1].route \in {"form", "rest"}
    /\ hist[1].outcome = "threw" /\ hist[1].foundExisting
    /\ \E b \in bundles : b.parentGid = hist[1].parentGid /\ b.children # hist[1].children

\* C24: every component row of every stored bundle has quantity >= 1, after
\* any creates and updates through the create form, the edit form, POST,
\* PUT and the CSV import.
C24_QuantityAtLeastOne ==
    \A b \in bundles : \A k \in 1..Len(b.children) : b.children[k].quantity >= 1

\* C25: a push is answered as a duplicate, without processInventoryUpdate
\* being called, only when a dedup lock of its message exists that has not
\* expired; after the lock's 24 hours a push of the message is processed
\* again, whether the expired row is still in the table or not.
C25_DuplicateNeedsLiveLock ==
    (hist # <<>> /\ hist[1].route = "pubsub" /\ ~hist[1].invoked)
        => \E l \in locks : /\ l.id = DedupLockId(hist[1].msg)
                            /\ ~(l.expiresAt < now)

\* C26: a lock is removed only by the operation that created it or by
\* expiry: when a caller's lock has expired and another caller has acquired
\* the id since, the first caller's releaseSyncLock leaves the other's live
\* lock in the table.
C26_ReleaseSparesOthersLock ==
    (/\ hist # <<>> /\ hist[1].route = "release"
     /\ hist[1].held
     /\ hist[1].heldAt + SYNC_LOCK_TTL_MS < now)
        => \A l \in hist[1].removed : l.owner = hist[1].by \/ l.expiresAt < now

\* The adjustments a finished run sent: each for the parent of one of the
\* bundles found for the event's variant, at the event's location, and no
\* two for the same bundle.
IssuedWithinFrame(h) ==
    /\ \A k \in 1..Len(h.issued) :
          /\ h.issued[k].loc = h.event.loc
          /\ \E j \in 1..Len(h.bundleList) :
                h.issued[k].item = BundleById(h.bundleList[j]).parentGid
    /\ \A j, k \in 1..Len(h.issued) :
          h.issued[j].item = h.issued[k].item => j = k

\* A step changes the ledger only where a run that is about to send its
\* adjustments for a bundle may write: that bundle's parent, at the location
\* of the run's event.
LedgerFrame ==
    \A l \in Locations : \A v \in Variants :
        ledger'[l][v] # ledger[l][v]
            => \E w \in Workers :
                  /\ proc[w].pc = "adjust"
                  /\ l = proc[w].event.loc
                  /\ v = BundleById(proc[w].bundleList[proc[w].i]).parentGid

\* C27: processInventoryUpdate sends at most one adjustment per affected
\* bundle, each for the bundle's parent variant at the event's location; no
\* step writes the ledger anywhere else, and none changes the Bundle table.
C27_WritesOnlyParentAtLocation ==
    /\ [](hist # <<>> /\ hist[1].route = "webhook" => IssuedWithinFrame(hist[1]))
    /\ [][bundles' = bundles /\ LedgerFrame]_vars

\* C27 witness: a run for a restock of A at location 1 has adjusted B and P
\* there, and location 2 holds what it held.
C27_Witness ==
    /\ hist # <<>> /\ hist[1].route = "webhook"
    /\ hist[1].event.item = "A" /\ hist[1].event.loc = 1
    /\ {hist[1].issued[k].item : k \in 1..Len(hist[1].issued)} = {"B", "P"}
    /\ ledger[1]["B"] # 0
    /\ ledger[2] = InitLevels

\* The step of w's acquireSyncLock that runs deleteMany, and the one that runs
\* create.
GcStep(w) == proc[w].pc = "acq_delete" /\ proc'[w].pc # "acq_delete"
CreateStep(w) == proc[w].pc = "acq_create" /\ proc'[w].pc # "acq_create"

\* After w's create step: the call has returned false.
ReturnedFalse(w) ==
    IF proc[w].route = "lockapi"
    THEN acq'[w].done /\ ~acq'[w].result
    ELSE LET after == IF proc'[w].pc = "idle" THEN hist'[1] ELSE proc'[w]
         IN  after.lockFailed /\ proc[w].lockBundle \in after.contended

\* C28: the cleanup in acquireSyncLock removes exactly the rows, whatever
\* their id, whose expiresAt is before the time the call read, and keeps the
\* rows whose expiresAt is at or after it; a create for an id that has a live
\* row returns false and leaves the table as it is.
C28_GcRemovesExactlyExpired ==
    [][\A w \in Workers :
        /\ GcStep(w) =>
              /\ \A l \in locks : l.expiresAt < proc[w].acqNow => l \notin locks'
              /\ \A l \in locks : l.expiresAt >= proc[w].acqNow => l \in locks'
              /\ locks' \subseteq locks
        /\ (CreateStep(w) /\ \E l \in locks : l.id = proc[w].lockId
                                            /\ l.expiresAt >= proc[w].acqNow) =>
              /\ locks' = locks
              /\ ReturnedFalse(w)]_vars

\* C28 witness: a cleanup has collected an expired dedup lock, and the run
\* that has just returned was refused a sync lock whose live row, created by
\* the other worker, is still in the table.
C28_Witness ==
    /\ \E m \in Messages : dd[m].collected > 0
    /\ hist # <<>>
    /\ hist[1].lockFailed
    /\ \E l \in locks : /\ l.id = hist[1].lastLock
                         /\ l.bundleId \in hist[1].contended
                         /\ l.owner # hist[1].w
                         /\ l.expiresAt >= now

FoundFor(h) ==
    LET v == findVariantForInventoryItem(h.event.item)
    IN  {b \in bundles : b.parentGid = v \/ v \in ChildGids(b)}

\* C30: a run of processInventoryUpdate that returns, for an event whose
\* variant is in at least one bundle, has processed = true, bundlesAffected
\* equal to the number of distinct bundles holding the variant as parent or
\* component, whatever the number of bundles skipped or left unadjusted, and
\* adjustmentsMade no larger than bundlesAffected.
C30_AffectedCountsBundlesFound ==
    (hist # <<>> /\ hist[1].invoked /\ ~hist[1].threw /\ FoundFor(hist[1]) # {})
        => /\ hist[1].result.processed
           /\ hist[1].result.bundlesAffected = Cardinality(FoundFor(hist[1]))
           /\ hist[1].result.adjustmentsMade <= hist[1].result.bundlesAffected

\* C30 witness: a run that was refused the lock of its only bundle has
\* returned with that bundle counted and no adjustment made.
C30_Witness ==
    /\ hist # <<>> /\ hist[1].invoked /\ ~hist[1].threw
    /\ hist[1].contended # {}
    /\ hist[1].result.processed
    /\ hist[1].result.bundlesAffected = 1
    /\ hist[1].result.adjustmentsMade = 0
====
